---- MODULE Spec2Model ----
(***************************************************************************)
(* Layered: architecture-drift analysis pipeline.                          *)
(*                                                                         *)
(*   RepositoryAnalyzer  -> modules, dependencies   (analysis/analyzer.py) *)
(*   DependencyGraph     -> nodes, adjacency        (graph/builder.py)     *)
(*   ArchitectureInferenceEngine                    (analysis/inference.py)*)
(*   RulesEngine                                    (rules/engine.py)      *)
(*   ViolationDetector                              (drift/detector.py)    *)
(*                                                                         *)
(* Strings are TLA+ strings; substring tests, lower-casing and the module  *)
(* name conversion are computed character by character.                    *)
(***************************************************************************)
EXTENDS Integers, Sequences, FiniteSets, TLC

VARIABLES
    pc,                  \* position in the pipeline
    source_files,        \* the files found by _find_source_files, in walk order
    fileIdx,             \* index of the next file analyze() hands to _analyze_file
    modules,             \* analyzer.modules / graph.module_metadata (one dict object)
    dependencies,        \* analyzer.dependencies
    nodes,               \* graph nodes, in insertion order
    node_layer,          \* graph node attribute 'layer'
    adj,                 \* graph adjacency: node -> successors, in insertion order
    inferred_layers,     \* inference.inferred_layers
    layer_hierarchy,     \* inference.layer_hierarchy
    votes,               \* dependency_votes, as (pair, count) in first-seen order
    voteIdx,             \* index of the next dependency_votes item to apply
    allowed_dependencies,\* result of _infer_allowed_dependencies
    rules,               \* RulesEngine.rules
    cycles,              \* the list last returned by find_cycles
    unreadable,          \* the scanned files whose reading or parsing raises
    stdout,              \* the warning lines printed by the analyzer
    violations,          \* detector.violations
    previous_violations, \* the list the previous detect_all_violations returned
    uuid_count,          \* the number of uuid4 values drawn so far
    calls,               \* the number of detect_all_violations calls so far
    repo_path,           \* request.repo_path
    local_path,          \* analyze_repository's local_path
    is_temp,             \* analyze_repository's is_temp
    directories,         \* the directories that exist on disk
    executor,            \* the executor thread running prepare_repository
    threshold_level,     \* analyze_repository's threshold_level, -1 while unbound
    analysis_rows,       \* the Analysis rows committed to the database
    violation_rows,      \* the Violation rows committed to the database
    history_rows         \* the ArchitectureHistory rows committed to the database

vars == <<pc, source_files, fileIdx, modules, dependencies, nodes, node_layer, adj,
          inferred_layers, layer_hierarchy, votes, voteIdx,
          allowed_dependencies, rules, cycles, unreadable, stdout,
          violations, previous_violations, uuid_count, calls,
          repo_path, local_path, is_temp, directories, executor,
          threshold_level, analysis_rows, violation_rows, history_rows>>

\* the detector's own state
detection == <<violations, previous_violations, uuid_count, calls>>

\* the request's repository and the thread preparing it
request == <<repo_path, local_path, is_temp, directories, executor>>

\* what the endpoint read from the settings and wrote to the database
database == <<threshold_level, analysis_rows, violation_rows, history_rows>>

None == "<none>"

(***************************************************************************)
(* Bounds of the explored inputs.                                          *)
(***************************************************************************)
MaxFiles == 3
MaxDeps == 3
MaxUnreadable == 1

(***************************************************************************)
(* String helpers (Python str semantics).                                  *)
(***************************************************************************)
\* The characters used by the modelled paths, in code-point order.
Alphabet == "./0123456789ABCDEFGHIJKLMNOPQRSTUVWXYZ_abcdefghijklmnopqrstuvwxyz"
UpperChars == "ABCDEFGHIJKLMNOPQRSTUVWXYZ"
LowerChars == "abcdefghijklmnopqrstuvwxyz"

CharAt(s, i) == SubSeq(s, i, i)

IndexIn(c, s) ==
    IF \E i \in 1..Len(s) : CharAt(s, i) = c
    THEN CHOOSE i \in 1..Len(s) : CharAt(s, i) = c
    ELSE 0

\* ord(c), tabulated over the alphabet (only the order of the codes is used)
CodeTable ==
    [c \in { CharAt(Alphabet, i) : i \in 1..Len(Alphabet) } |-> IndexIn(c, Alphabet)]

CharCode(c) == CodeTable[c]

\* str.lower() on one character, tabulated over the alphabet
LowerTable ==
    [c \in { CharAt(Alphabet, i) : i \in 1..Len(Alphabet) } |->
        IF IndexIn(c, UpperChars) > 0
        THEN CharAt(LowerChars, IndexIn(c, UpperChars)) ELSE c]

LowerChar(c) == LowerTable[c]

RECURSIVE MapChars(_, _, _)
\* kind "lower": str.lower();  kind "dots": str.replace(os.sep, '.')
MapChars(s, i, kind) ==
    IF i > Len(s) THEN ""
    ELSE LET c == CharAt(s, i)
             d == IF kind = "lower" THEN LowerChar(c)
                  ELSE IF c = "/" THEN "." ELSE c
         IN d \o MapChars(s, i + 1, kind)

Lower(s) == MapChars(s, 1, "lower")

\* Python's `p in s` for strings
Contains(p, s) ==
    \E i \in 1..(Len(s) - Len(p) + 1) : SubSeq(s, i, i + Len(p) - 1) = p

RECURSIVE StrLessFrom(_, _, _)
StrLessFrom(a, b, i) ==
    IF i > Len(b) THEN FALSE
    ELSE IF i > Len(a) THEN TRUE
    ELSE IF CharCode(CharAt(a, i)) < CharCode(CharAt(b, i)) THEN TRUE
    ELSE IF CharCode(CharAt(a, i)) > CharCode(CharAt(b, i)) THEN FALSE
    ELSE StrLessFrom(a, b, i + 1)

\* Python's a < b for strings
StrLess(a, b) == StrLessFrom(a, b, 1)

\* Position of the last occurrence of character c in s (0 if none)
LastIndexOf(c, s) ==
    IF \E i \in 1..Len(s) : CharAt(s, i) = c
    THEN CHOOSE i \in 1..Len(s) :
            CharAt(s, i) = c /\ \A j \in (i + 1)..Len(s) : CharAt(s, j) # c
    ELSE 0

\* PurePath.with_suffix(''): drop the suffix of the final path component
WithoutSuffix(path) ==
    LET slash == LastIndexOf("/", path)
        dot == LastIndexOf(".", path)
    IN IF dot > slash + 1 /\ dot < Len(path) THEN SubSeq(path, 1, dot - 1) ELSE path

GetModuleName(path) == MapChars(WithoutSuffix(path), 1, "dots")

(***************************************************************************)
(* The repository contents explored: repository-relative source files.     *)
(***************************************************************************)
CandidateFiles ==
    << "Client/App.js",
       "src/gateway/user_service.py",
       "lib/helpers.py",
       "db/user_model.py",
       "legacy/payroll.py" >>

\* two files in each of five directories, for repositories of two directories
LayeredFiles ==
    << "Client/App.js", "Client/Menu.js",
       "src/gateway/user_service.py", "src/gateway/router.py",
       "core/billing.py", "core/orders.py",
       "db/user_model.py", "db/order_model.py",
       "legacy/payroll.py", "legacy/ledger.py" >>

\* files of several languages: a JavaScript file and the stylesheet beside
\* it, a TypeScript file and two Python files
ScanFiles ==
    << "Client/App.js",
       "Client/App.css",
       "Client/Menu.ts",
       "lib/helpers.py",
       "legacy/payroll.py" >>

\* an import that passes _is_external_import and names no scanned module
UnresolvedImport == "utils"

SeqRange(s) == { s[i] : i \in 1..Len(s) }

IsInjective(s) == \A i, j \in 1..Len(s) : i # j => s[i] # s[j]

DirOf(path) == SubSeq(path, 1, LastIndexOf("/", path) - 1)

\* small repositories: up to MaxFiles of the candidate files, in any walk order
SmallRepos ==
    UNION { { s \in [1..k -> SeqRange(CandidateFiles)] : IsInjective(s) } :
               k \in 0..MaxFiles }

\* mixed-language repositories: up to MaxFiles of ScanFiles, in any walk order
ScanRepos ==
    UNION { { s \in [1..k -> SeqRange(ScanFiles)] : IsInjective(s) } :
               k \in 0..MaxFiles }

\* index of a file in the listing of LayeredFiles
LayeredIndex(f) == CHOOSE i \in 1..Len(LayeredFiles) : LayeredFiles[i] = f

\* repositories of two directories with two files each (os.walk lists a
\* directory's files together; they are taken in listing order), followed by
\* at most one candidate file of a further directory
LayeredRepos ==
    LET dir == [f \in SeqRange(LayeredFiles) \cup SeqRange(CandidateFiles) |-> DirOf(f)]
        pairs == { s \in [1..4 -> SeqRange(LayeredFiles)] :
                      /\ dir[s[1]] = dir[s[2]]
                      /\ dir[s[3]] = dir[s[4]]
                      /\ dir[s[1]] # dir[s[3]]
                      /\ LayeredIndex(s[1]) < LayeredIndex(s[2])
                      /\ LayeredIndex(s[3]) < LayeredIndex(s[4]) }
    IN pairs \cup
       UNION { { Append(s, f) :
                    f \in { g \in SeqRange(CandidateFiles) :
                               dir[g] # dir[s[1]] /\ dir[g] # dir[s[3]] } } :
               s \in pairs }

\* _get_module_name of the explored files, tabulated
ModuleNameTable ==
    [f \in SeqRange(CandidateFiles) \cup SeqRange(LayeredFiles)
           \cup SeqRange(ScanFiles) |-> GetModuleName(f)]

\* import targets a scanned file may name: the scanned modules and one
\* unresolved name, in a fixed listing order
ImportTargets(files) ==
    [i \in 1..Len(files) |-> ModuleNameTable[files[i]]] \o <<UnresolvedImport>>

\* import lists of length k: non-decreasing index sequences into the targets
\* (duplicates allowed), so one list stands for each multiset of imports
ImportLists(files, k) ==
    LET T == ImportTargets(files)
    IN { [i \in 1..k |-> T[ix[i]]] :
            ix \in { f \in [1..k -> 1..Len(T)] :
                        \A i \in 1..(k - 1) : f[i] <= f[i + 1] } }

\* in a layered repository: the modules of the other one of the two
\* directories, in walk order; none for the further file
OtherDirModules(files, i) ==
    IF i > 4 THEN <<>>
    ELSE LET others == SelectSeq(SubSeq(files, 1, 4),
                                 LAMBDA f : DirOf(f) # DirOf(files[i]))
         IN [k \in 1..Len(others) |-> ModuleNameTable[others[k]]]

\* the import lists explored for the file at index i of the scan: in a small
\* repository any list that keeps the scan within MaxDeps dependencies; in a
\* layered repository any selection of the other directory's modules
ImportChoices(files, i, used) ==
    IF Len(files) >= 4 /\ files \in LayeredRepos
    THEN LET T == OtherDirModules(files, i)
         IN { SelectSeq(T, LAMBDA t : t \in sel) : sel \in SUBSET SeqRange(T) }
    ELSE UNION { ImportLists(files, k) : k \in 0..(MaxDeps - used) }

(***************************************************************************)
(* RepositoryAnalyzer                                                      *)
(***************************************************************************)
\* index of key in a dict kept as a sequence of records with a name field
DictIndex(d, key) ==
    IF \E i \in 1..Len(d) : d[i].name = key
    THEN CHOOSE i \in 1..Len(d) : d[i].name = key
    ELSE 0

\* d[key] = value: replaces in place, or appends a new key
DictSet(d, key, value) ==
    IF DictIndex(d, key) > 0
    THEN [d EXCEPT ![DictIndex(d, key)] = value]
    ELSE Append(d, value)

DictKeys(d) == { d[i].name : i \in 1..Len(d) }

\* file_path.suffix.lower(): the final component's suffix, dot included
SuffixOf(path) ==
    LET slash == LastIndexOf("/", path)
        dot == LastIndexOf(".", path)
    IN IF dot > slash + 1 /\ dot < Len(path)
       THEN Lower(SubSeq(path, dot, Len(path))) ELSE ""

\* the keys of IMPORT_PATTERNS
IMPORT_PATTERNS ==
    {".py", ".js", ".java", ".cs", ".go", ".rs", ".rb", ".php", ".swift",
     ".kt", ".scala", ".dart", ".ex", ".hs", ".cpp", ".lua"}

\* the branch _analyze_file takes for a file
StrategyFor(path) ==
    IF SuffixOf(path) = ".py" THEN "python"
    ELSE IF SuffixOf(path) \in IMPORT_PATTERNS THEN "patterns"
    ELSE "generic"

\* the strategies of the explored files, tabulated
StrategyTable ==
    [f \in SeqRange(CandidateFiles) \cup SeqRange(LayeredFiles)
           \cup SeqRange(ScanFiles) |-> StrategyFor(f)]

\* the line printed without the file's path
WarningLine_WithoutPath(path) ==
    [file_path |-> "",
     text |-> IF StrategyTable[path] = "python"
              THEN "Error analyzing" ELSE "Warning: Failed to analyze"]

\* the line printed by the except clause of the strategy that failed
WarningLine(path) ==
    [file_path |-> path,
     text |-> IF StrategyTable[path] = "python"
              THEN "Error analyzing" ELSE "Warning: Failed to analyze"]

\* what analyze() returns: the tuple (modules, dependencies)
AnalyzeReturn == <<modules, dependencies>>

(***************************************************************************)
(* The repository a request names (utils/git_helper.py).                   *)
(***************************************************************************)
LocalRepo == "/srv/projects/shop"
MissingRepo == "/srv/projects/absent"
GithubRepo == "https://github.com/acme/shop"
RepoPaths == {LocalRepo, MissingRepo, GithubRepo}

\* the directory tempfile.mkdtemp(prefix='layered_analysis_') creates
TempDir == "/tmp/layered_analysis_0"

StartsWith(s, p) == Len(p) <= Len(s) /\ SubSeq(s, 1, Len(p)) = p

\* is_github_url: the three patterns, read on lower-case paths whose user
\* and repository segments are word characters
IsGithubUrl(p) ==
    \/ StartsWith(p, "https://github.com/")
    \/ StartsWith(p, "http://github.com/")
    \/ StartsWith(p, "git@github.com:")
    \/ StartsWith(p, "github.com/")

\* the clones explored: at most one source file
RemoteRepos == { s \in SmallRepos : Len(s) <= 1 }

\* the files the scan will find under the repository the request names
RepoContents(p, local) ==
    IF p = LocalRepo THEN local
    ELSE IF p = GithubRepo THEN RemoteRepos
    ELSE { <<>> }

\* analyze_repository on entry, before prepare_repository is scheduled
Requested ==
    /\ pc = "request"
    /\ repo_path \in RepoPaths
    /\ local_path = None
    /\ is_temp = FALSE
    /\ directories = {LocalRepo}
    /\ executor = "idle"
    /\ threshold_level = -1
    /\ analysis_rows = <<>>
    /\ violation_rows = <<>>
    /\ history_rows = <<>>

\* the state after the constructors, before the scan
Constructed ==
    /\ fileIdx = 1
    /\ modules = <<>>
    /\ dependencies = <<>>
    /\ nodes = <<>>
    /\ node_layer = <<>>
    /\ adj = <<>>
    /\ inferred_layers = <<>>
    /\ layer_hierarchy = <<>>
    /\ votes = <<>>
    /\ voteIdx = 0
    /\ allowed_dependencies = <<>>
    /\ rules = <<>>
    /\ cycles = <<>>
    /\ stdout = <<>>
    /\ violations = <<>>
    /\ previous_violations = <<>>
    /\ uuid_count = 0
    /\ calls = 0

\* repositories all of whose files can be read and parsed
Init ==
    /\ Requested
    /\ source_files \in RepoContents(repo_path, SmallRepos \cup LayeredRepos)
    /\ unreadable = {}
    /\ Constructed

\* repositories of mixed languages, with up to MaxUnreadable files whose
\* reading or parsing raises
InitScan ==
    /\ Requested
    /\ source_files \in RepoContents(repo_path, ScanRepos)
    /\ unreadable \in { U \in SUBSET SeqRange(source_files) :
                          Cardinality(U) <= MaxUnreadable }
    /\ Constructed

\* the repositories of a presentation file and a data file, in any walk
\* order, whatever the request names
LiveFiles == <<"Client/App.js", "db/user_model.py">>

LiveRepos == { s \in SmallRepos : SeqRange(s) \subseteq SeqRange(LiveFiles) }

InitLive ==
    /\ Requested
    /\ source_files \in (IF repo_path = MissingRepo THEN { <<>> } ELSE LiveRepos)
    /\ unreadable = {}
    /\ Constructed

\* _analyze_file for the next file of the scan: dispatch on the suffix to
\* _analyze_python_file / _analyze_with_patterns / _analyze_generic_file;
\* imps is the file's filtered import list. A file whose reading or parsing
\* raises leaves modules and dependencies alone and prints one line.
AnalyzeFile ==
    /\ pc = "scan"
    /\ fileIdx <= Len(source_files)
    /\ LET path == source_files[fileIdx]
           strategy == StrategyTable[path]
           module_name == ModuleNameTable[path]
       IN IF path \in unreadable /\ strategy # "generic"
          THEN /\ stdout' = Append(stdout, WarningLine(path))
               /\ UNCHANGED <<modules, dependencies>>
          ELSE /\ \E imps \in (IF strategy = "generic" THEN {<<>>}
                               ELSE ImportChoices(source_files, fileIdx,
                                                  Len(dependencies))) :
                    /\ modules' = DictSet(modules, module_name,
                                          [name |-> module_name,
                                           file_path |-> path,
                                           imports |-> imps,
                                           layer |-> None])
                    /\ dependencies' = dependencies \o
                          [i \in 1..Len(imps) |-> [source |-> module_name,
                                           target |-> imps[i],
                                           import_type |-> "import"]]
               /\ UNCHANGED stdout
    /\ fileIdx' = fileIdx + 1
    /\ UNCHANGED <<pc, source_files, nodes, node_layer, adj, inferred_layers,
                   layer_hierarchy, votes, voteIdx, allowed_dependencies,
                   rules, cycles, unreadable, detection,
                   request, database>>

(***************************************************************************)
(* DependencyGraph (a networkx DiGraph: no parallel edges, insertion order) *)
(***************************************************************************)
EmptyGraph == [nodes |-> <<>>, layer |-> <<>>, adj |-> <<>>]

HasNode(G, n) == n \in SeqRange(G.nodes)

\* DiGraph.add_node(n, layer=...): a new node, or an attribute update
AddNode(G, n, layer) ==
    IF HasNode(G, n)
    THEN [G EXCEPT !.layer = [G.layer EXCEPT ![n] = layer]]
    ELSE [nodes |-> Append(G.nodes, n),
          layer |-> [m \in SeqRange(G.nodes) \cup {n} |->
                        IF m = n THEN layer ELSE G.layer[m]],
          adj |-> [m \in SeqRange(G.nodes) \cup {n} |->
                        IF m = n THEN <<>> ELSE G.adj[m]]]

\* the node as DiGraph.add_edge creates it when it is missing (no attributes)
WithNode(G, n) ==
    IF HasNode(G, n) THEN G
    ELSE [nodes |-> Append(G.nodes, n),
          layer |-> [m \in SeqRange(G.nodes) \cup {n} |->
                        IF m = n THEN None ELSE G.layer[m]],
          adj |-> [m \in SeqRange(G.nodes) \cup {n} |->
                        IF m = n THEN <<>> ELSE G.adj[m]]]

\* DiGraph.add_edge(u, v): creates missing endpoints; an existing edge is kept
\* add_edge of a multigraph: an edge that exists already is added again
AddEdge_Parallel(G, u, v) ==
    LET H == WithNode(WithNode(G, u), v)
    IN [H EXCEPT !.adj = [H.adj EXCEPT ![u] = Append(H.adj[u], v)]]

AddEdge(G, u, v) ==
    LET H == WithNode(WithNode(G, u), v)
    IN IF v \in SeqRange(H.adj[u]) THEN H
       ELSE [H EXCEPT !.adj = [H.adj EXCEPT ![u] = Append(H.adj[u], v)]]

RECURSIVE AddNodes(_, _, _)
AddNodes(G, mods, i) ==
    IF i > Len(mods) THEN G
    ELSE AddNodes(AddNode(G, mods[i].name, mods[i].layer), mods, i + 1)

\* the guard with the test of the target left out
EndpointsPresent_SourceOnly(G, dep) == HasNode(G, dep.source)

\* the guard of build_from_analysis on one dependency record
EndpointsPresent(G, dep) == HasNode(G, dep.source) /\ HasNode(G, dep.target)

RECURSIVE AddEdges(_, _, _)
AddEdges(G, deps, i) ==
    IF i > Len(deps) THEN G
    ELSE AddEdges(IF EndpointsPresent(G, deps[i])
                  THEN AddEdge(G, deps[i].source, deps[i].target)
                  ELSE G,
                  deps, i + 1)

BuildGraph(mods, deps) == AddEdges(AddNodes(EmptyGraph, mods, 1), deps, 1)

BuildFromAnalysis ==
    /\ pc = "scan"
    /\ fileIdx > Len(source_files)
    /\ LET G == BuildGraph(modules, dependencies)
       IN /\ nodes' = G.nodes
          /\ node_layer' = G.layer
          /\ adj' = G.adj
    /\ pc' = "built"
    /\ UNCHANGED <<source_files, fileIdx, modules, dependencies,
                   inferred_layers, layer_hierarchy, votes, voteIdx,
                   allowed_dependencies, rules, cycles,
                   unreadable, stdout, detection,
                   request, database>>

RECURSIVE EdgesFrom(_, _, _)
\* DiGraph.edges(): node by node in node order, successors in adjacency order
EdgesFrom(ns, a, i) ==
    IF i > Len(ns) THEN <<>>
    ELSE [k \in 1..Len(a[ns[i]]) |-> <<ns[i], a[ns[i]][k]>>] \o EdgesFrom(ns, a, i + 1)

GetEdges == EdgesFrom(nodes, adj, 1)

GetSuccessors(n) == adj[n]

HasEdge(u, v) == u \in DOMAIN adj /\ v \in SeqRange(adj[u])

(***************************************************************************)
(* find_cycles: list(nx.simple_cycles(graph)).  networkx reports self-loops *)
(* first, then, for one start node after another, the elementary cycles     *)
(* through the start node among the nodes not yet used as a start; a cycle  *)
(* is listed from its start node.  The start nodes are popped from Python   *)
(* sets, so their order is not fixed by the graph: `order` ranges over all  *)
(* node orders.                                                             *)
(***************************************************************************)
RECURSIVE CyclesThrough(_, _, _, _)
\* depth-first search extending `path` over the successors of its last node,
\* from the i-th on, visiting only nodes of `avail`
CyclesThrough(a, path, avail, i) ==
    LET succ == a[path[Len(path)]]
    IN IF i > Len(succ) THEN <<>>
       ELSE LET w == succ[i]
                found ==
                    IF w = path[1]
                    THEN (IF Len(path) > 1 THEN <<path>> ELSE <<>>)
                    ELSE IF w \in avail /\ w \notin SeqRange(path)
                    THEN CyclesThrough(a, Append(path, w), avail, 1)
                    ELSE <<>>
            IN found \o CyclesThrough(a, path, avail, i + 1)

\* the search left free to visit the earlier start nodes again
NodesAfter_AllOthers(order, k) == SeqRange(order) \ {order[k]}

\* the nodes a search started at order[k] may still visit
NodesAfter(order, k) == { order[j] : j \in (k + 1)..Len(order) }

RECURSIVE CyclesByStart(_, _, _)
CyclesByStart(a, order, k) ==
    IF k > Len(order) THEN <<>>
    ELSE CyclesThrough(a, <<order[k]>>, NodesAfter(order, k), 1)
            \o CyclesByStart(a, order, k + 1)

\* the enumeration with the edges from a node to itself passed over
SelfLoops_None(ns, a, i) == <<>>

RECURSIVE SelfLoops(_, _, _)
SelfLoops(ns, a, i) ==
    IF i > Len(ns) THEN <<>>
    ELSE (IF ns[i] \in SeqRange(a[ns[i]]) THEN << <<ns[i]>> >> ELSE <<>>)
            \o SelfLoops(ns, a, i + 1)

\* the result when the enumeration raises and the bare except answers []
SimpleCycles_Swallowed(ns, a, order) == <<>>

SimpleCycles(ns, a, order) == SelfLoops(ns, a, 1) \o CyclesByStart(a, order, 1)

RECURSIVE Closure(_, _)
Closure(a, S) ==
    LET T == S \cup UNION { SeqRange(a[x]) : x \in S }
    IN IF T = S THEN S ELSE Closure(a, T)

\* the nodes reachable from n by one or more edges
ReachableFrom(a, n) == Closure(a, SeqRange(a[n]))

\* the nodes on a cycle of two or more nodes
CyclicNodes(ns, a) ==
    { n \in SeqRange(ns) :
        \E m \in ReachableFrom(a, n) : m # n /\ n \in ReachableFrom(a, m) }

\* the start orders that can change the result: every order of the nodes on
\* a cycle of two or more nodes; the other nodes start no search that finds
\* a cycle and lie on no search path that does, and are put last
NodeOrders(ns, a) ==
    LET cyc == CyclicNodes(ns, a)
        rest == SelectSeq(ns, LAMBDA n : n \notin cyc)
    IN { o \o rest : o \in { f \in [1..Cardinality(cyc) -> cyc] : IsInjective(f) } }

\* DependencyGraph.find_cycles, called on the built graph
FindCycles ==
    /\ pc = "built"
    /\ \E order \in NodeOrders(nodes, adj) :
          cycles' = SimpleCycles(nodes, adj, order)
    /\ pc' = "cycles"
    /\ UNCHANGED <<source_files, fileIdx, modules, dependencies, nodes,
                   node_layer, adj, inferred_layers, layer_hierarchy, votes,
                   voteIdx, allowed_dependencies, rules,
                   unreadable, stdout, detection,
                   request, database>>

(***************************************************************************)
(* ArchitectureInferenceEngine                                             *)
(***************************************************************************)
\* the dict written with the service entry before the gateway entry
LAYER_ORDER_ServiceFirst == <<"presentation", "service", "gateway", "data", "legacy">>

\* the keys of LAYER_PATTERNS, in dict order
LAYER_ORDER == <<"presentation", "gateway", "service", "data", "legacy">>

LAYER_PATTERNS ==
    [presentation |-> <<"client", "frontend", "web", "mobile", "ui", "view",
                        "presentation">>,
     gateway |-> <<"gateway", "api", "controller", "endpoint", "route",
                   "handler">>,
     service |-> <<"service", "business", "domain", "core", "logic",
                   "usecase">>,
     data |-> <<"data", "repository", "dao", "model", "database", "db",
                "persistence">>,
     legacy |-> <<"legacy", "old", "deprecated", "v1">>]

DEFAULT_HIERARCHY ==
    [presentation |-> 0, gateway |-> 1, service |-> 2, data |-> 3, legacy |-> 4]

\* the level DEFAULT_HIERARCHY.get(layer, 2) gives a layer it does not list
DefaultMiddleLevel == 2

\* `count > 2`: the number of edges a layer pair needs to exceed
SignificantCount == 2

\* the inner loop: some pattern of the layer is in the path or in the name
LayerMatches(layer_name, file_path, module_name) ==
    \E k \in 1..Len(LAYER_PATTERNS[layer_name]) :
        \/ Contains(LAYER_PATTERNS[layer_name][k], file_path)
        \/ Contains(LAYER_PATTERNS[layer_name][k], module_name)

RECURSIVE FirstMatchingLayer(_, _, _)
\* the outer loop over LAYER_PATTERNS.items(), from the i-th layer on
FirstMatchingLayer(file_path, module_name, i) ==
    IF i > Len(LAYER_ORDER) THEN None
    ELSE IF LayerMatches(LAYER_ORDER[i], file_path, module_name)
    THEN LAYER_ORDER[i]
    ELSE FirstMatchingLayer(file_path, module_name, i + 1)

\* the assignment without the `if not assigned_layer` default
AssignedLayer_NoDefault(metadata) ==
    FirstMatchingLayer(Lower(metadata.file_path), Lower(metadata.name), 1)

\* the layer _assign_modules_to_layers gives a module with this metadata
AssignedLayer(metadata) ==
    LET assigned_layer ==
            FirstMatchingLayer(Lower(metadata.file_path), Lower(metadata.name), 1)
    IN IF assigned_layer = None THEN "service" ELSE assigned_layer

\* AssignedLayer tabulated once over the (name, file_path) pairs a scan of the
\* explored files produces; any other metadata is computed on the spot
LayerTable ==
    [m \in { [name |-> GetModuleName(f), file_path |-> f] :
                f \in SeqRange(CandidateFiles) \cup SeqRange(LayeredFiles)
                      \cup SeqRange(ScanFiles) } |->
        AssignedLayer(m)]

AssignedLayerOf(metadata) ==
    LET key == [name |-> metadata.name, file_path |-> metadata.file_path]
    IN IF key \in DOMAIN LayerTable THEN LayerTable[key] ELSE AssignedLayer(key)

\* module_metadata.get(node_id), for a node that has metadata
MetadataOf(mods, node_id) == mods[DictIndex(mods, node_id)]

\* the nodes the loop does not skip: `if not metadata: continue`
AssignableNodes == { n \in SeqRange(nodes) : DictIndex(modules, n) > 0 }

\* the assignment with set_node_layer writing the node attribute only
AssignModulesToLayers_NodeAttributeOnly ==
    /\ pc = "built"
    /\ LET assigned ==
              [n \in AssignableNodes |-> AssignedLayerOf(MetadataOf(modules, n))]
       IN /\ inferred_layers' = assigned
          /\ node_layer' =
                [n \in SeqRange(nodes) |->
                    IF n \in AssignableNodes THEN assigned[n] ELSE node_layer[n]]
    /\ pc' = "assigned"
    /\ UNCHANGED <<source_files, fileIdx, modules, dependencies, nodes, adj,
                   layer_hierarchy, votes, voteIdx, allowed_dependencies,
                   rules, cycles,
                   unreadable, stdout, detection,
                   request, database>>

\* _assign_modules_to_layers, with set_node_layer on every assigned node
AssignModulesToLayers ==
    /\ pc = "built"
    /\ LET assigned ==
              [n \in AssignableNodes |-> AssignedLayerOf(MetadataOf(modules, n))]
       IN /\ inferred_layers' = assigned
          /\ node_layer' =
                [n \in SeqRange(nodes) |->
                    IF n \in AssignableNodes THEN assigned[n] ELSE node_layer[n]]
          /\ modules' =
                [i \in 1..Len(modules) |->
                    IF modules[i].name \in AssignableNodes
                    THEN [modules[i] EXCEPT !.layer = assigned[modules[i].name]]
                    ELSE modules[i]]
    /\ pc' = "assigned"
    /\ UNCHANGED <<source_files, fileIdx, dependencies, nodes, adj,
                   layer_hierarchy, votes, voteIdx, allowed_dependencies,
                   rules, cycles,
                   unreadable, stdout, detection,
                   request, database>>

DefaultLevel(layer) ==
    IF layer \in DOMAIN DEFAULT_HIERARCHY
    THEN DEFAULT_HIERARCHY[layer] ELSE DefaultMiddleLevel

\* inferred_layers.get(n)
LayerOf(n) == IF n \in DOMAIN inferred_layers THEN inferred_layers[n] ELSE None

VoteIndex(vs, pair) ==
    IF \E i \in 1..Len(vs) : vs[i].pair = pair
    THEN CHOOSE i \in 1..Len(vs) : vs[i].pair = pair
    ELSE 0

RECURSIVE CountVotes(_, _, _)
\* dependency_votes after the edges from the i-th on are counted: a dict,
\* so its items keep the order in which each pair was first counted
CountVotes(vs, es, i) ==
    IF i > Len(es) THEN vs
    ELSE LET source_layer == LayerOf(es[i][1])
             target_layer == LayerOf(es[i][2])
             pair == <<source_layer, target_layer>>
             next ==
                IF source_layer # None /\ target_layer # None
                      /\ source_layer # target_layer
                THEN IF VoteIndex(vs, pair) > 0
                     THEN [vs EXCEPT ![VoteIndex(vs, pair)].count = @ + 1]
                     ELSE Append(vs, [pair |-> pair, count |-> 1])
                ELSE vs
         IN CountVotes(next, es, i + 1)

\* _determine_hierarchy up to its last loop: the default levels of the layers
\* used, and the votes counted
DetermineHierarchy ==
    /\ pc = "assigned"
    /\ layer_hierarchy' =
          [layer \in { inferred_layers[n] : n \in DOMAIN inferred_layers } |->
              DefaultLevel(layer)]
    /\ votes' = CountVotes(<<>>, GetEdges, 1)
    /\ voteIdx' = 1
    /\ pc' = "voting"
    /\ UNCHANGED <<source_files, fileIdx, modules, dependencies, nodes,
                   node_layer, adj, inferred_layers, allowed_dependencies,
                   rules, cycles,
                   unreadable, stdout, detection,
                   request, database>>

\* the iteration with the significance test written `count >= 2`
AdjustedHierarchy_CountAtLeast(h, vote) ==
    LET layer_a == vote.pair[1]
        layer_b == vote.pair[2]
    IN IF vote.count >= SignificantCount /\ h[layer_a] >= h[layer_b]
       THEN [h EXCEPT ![layer_b] = h[layer_a] + 1]
       ELSE h

\* the iteration without the test `hierarchy[layer_a] >= hierarchy[layer_b]`
AdjustedHierarchy_Unconditional(h, vote) ==
    LET layer_a == vote.pair[1]
        layer_b == vote.pair[2]
    IN IF vote.count > SignificantCount
       THEN [h EXCEPT ![layer_b] = h[layer_a] + 1]
       ELSE h

\* one iteration of the last loop on the hierarchy h
AdjustedHierarchy(h, vote) ==
    LET layer_a == vote.pair[1]
        layer_b == vote.pair[2]
    IN IF vote.count > SignificantCount /\ h[layer_a] >= h[layer_b]
       THEN [h EXCEPT ![layer_b] = h[layer_a] + 1]
       ELSE h

\* the last loop of _determine_hierarchy, one dependency_votes item a step
ApplyVote ==
    /\ pc = "voting"
    /\ voteIdx <= Len(votes)
    /\ layer_hierarchy' = AdjustedHierarchy(layer_hierarchy, votes[voteIdx])
    /\ voteIdx' = voteIdx + 1
    /\ UNCHANGED <<pc, source_files, fileIdx, modules, dependencies, nodes,
                   node_layer, adj, inferred_layers, votes,
                   allowed_dependencies, rules, cycles,
                   unreadable, stdout, detection,
                   request, database>>

\* The keys of the hierarchy dict come out of a Python set, in no fixed
\* order; no modelled result depends on it, so they are listed in LAYER_ORDER.
LayerList(h) == SelectSeq(LAYER_ORDER, LAMBDA l : l \in DOMAIN h)

\* the comprehension with the level test written `other_level > level`
AllowedFor_StrictlyDeeper(h, layer) ==
    SelectSeq(LayerList(h), LAMBDA other : h[other] > h[layer] /\ other # layer)

\* the list comprehension of _infer_allowed_dependencies for one layer
AllowedFor(h, layer) ==
    SelectSeq(LayerList(h), LAMBDA other : h[other] >= h[layer] /\ other # layer)

InferAllowedDependencies ==
    /\ pc = "voting"
    /\ voteIdx > Len(votes)
    /\ allowed_dependencies' =
          [layer \in DOMAIN layer_hierarchy |-> AllowedFor(layer_hierarchy, layer)]
    /\ pc' = "inferred"
    /\ UNCHANGED <<source_files, fileIdx, modules, dependencies, nodes,
                   node_layer, adj, inferred_layers, layer_hierarchy, votes,
                   voteIdx, cycles, rules,
                   unreadable, stdout, detection,
                   request, database>>

\* architecture_config['layers']
layers == LayerList(layer_hierarchy)

(***************************************************************************)
(* RulesEngine                                                             *)
(***************************************************************************)
\* the level hierarchy.get(layer, 999) gives a layer the hierarchy lacks
MissingLevel == 999

PairRule(source_layer, target_layer, allowed_targets) ==
    IF target_layer \in SeqRange(allowed_targets)
    THEN [name |-> source_layer \o "_to_" \o target_layer \o "_allowed",
          layer_source |-> source_layer,
          layer_target |-> target_layer,
          allowed |-> TRUE]
    ELSE [name |-> source_layer \o "_to_" \o target_layer \o "_forbidden",
          layer_source |-> source_layer,
          layer_target |-> target_layer,
          allowed |-> FALSE]

\* Rule 2: the dataclass default leaves layer_source None
LegacyIsolationRule ==
    [name |-> "legacy_isolation",
     layer_source |-> None,
     layer_target |-> "legacy",
     allowed |-> FALSE]

RECURSIVE BoundaryRules(_, _, _, _)
\* Rule 1: the nested loops, from the i-th source and the j-th target on
BoundaryRules(ls, allowed, i, j) ==
    IF i > Len(ls) THEN <<>>
    ELSE IF j > Len(ls) THEN BoundaryRules(ls, allowed, i + 1, 1)
    ELSE (IF ls[j] = ls[i] THEN <<>>
          ELSE <<PairRule(ls[i], ls[j], allowed[ls[i]])>>)
            \o BoundaryRules(ls, allowed, i, j + 1)

\* the rules with the legacy isolation rule appended unconditionally
GenerateRules_AlwaysIsolated(ls, allowed) ==
    BoundaryRules(ls, allowed, 1, 1) \o <<LegacyIsolationRule>>

GenerateRules(ls, allowed) ==
    BoundaryRules(ls, allowed, 1, 1)
        \o (IF "legacy" \in SeqRange(ls) THEN <<LegacyIsolationRule>> ELSE <<>>)

\* RulesEngine(architecture_config)
RulesEngineInit ==
    /\ pc = "inferred"
    /\ rules' = GenerateRules(layers, allowed_dependencies)
    /\ pc' = "compiled"
    /\ UNCHANGED <<source_files, fileIdx, modules, dependencies, nodes,
                   node_layer, adj, inferred_layers, layer_hierarchy, votes,
                   voteIdx, allowed_dependencies, cycles,
                   unreadable, stdout, detection,
                   request, database>>

\* get_applicable_rule: the index of the first rule for the pair, 0 for None
ApplicableRuleIndex(source_layer, target_layer) ==
    IF \E i \in 1..Len(rules) :
          rules[i].layer_source = source_layer /\ rules[i].layer_target = target_layer
    THEN CHOOSE i \in 1..Len(rules) :
            /\ rules[i].layer_source = source_layer
            /\ rules[i].layer_target = target_layer
            /\ \A j \in 1..(i - 1) :
                  ~(rules[j].layer_source = source_layer
                      /\ rules[j].layer_target = target_layer)
    ELSE 0

\* is_allowed answering True when no rule is found
IsAllowed_DefaultAllow(source_layer, target_layer) ==
    IF ApplicableRuleIndex(source_layer, target_layer) > 0
    THEN rules[ApplicableRuleIndex(source_layer, target_layer)].allowed
    ELSE TRUE

IsAllowed(source_layer, target_layer) ==
    IF ApplicableRuleIndex(source_layer, target_layer) > 0
    THEN rules[ApplicableRuleIndex(source_layer, target_layer)].allowed
    ELSE /\ source_layer \in DOMAIN allowed_dependencies
         /\ target_layer \in SeqRange(allowed_dependencies[source_layer])

\* hierarchy.get(layer, 999)
LevelOf(layer) ==
    IF layer \in DOMAIN layer_hierarchy THEN layer_hierarchy[layer] ELSE MissingLevel

Abs(x) == IF x < 0 THEN -x ELSE x

\* the severity with the reverse-dependency test made before the two
\* critical tests
GetViolationSeverity_HighFirst(source_layer, target_layer) ==
    LET source_level == LevelOf(source_layer)
        target_level == LevelOf(target_layer)
    IN IF target_level < source_level THEN "high"
       ELSE IF source_level - target_level >= 2 THEN "critical"
       ELSE IF target_layer = "legacy" THEN "critical"
       ELSE IF Abs(source_level - target_level) > 1 THEN "medium"
       ELSE "low"

\* the severity with the multi-layer test written `> 2`
GetViolationSeverity_StrictGap(source_layer, target_layer) ==
    LET source_level == LevelOf(source_layer)
        target_level == LevelOf(target_layer)
    IN IF source_level - target_level > 2 THEN "critical"
       ELSE IF target_layer = "legacy" THEN "critical"
       ELSE IF target_level < source_level THEN "high"
       ELSE IF Abs(source_level - target_level) > 1 THEN "medium"
       ELSE "low"

GetViolationSeverity(source_layer, target_layer) ==
    LET source_level == LevelOf(source_layer)
        target_level == LevelOf(target_layer)
    IN IF source_level - target_level >= 2 THEN "critical"
       ELSE IF target_layer = "legacy" THEN "critical"
       ELSE IF target_level < source_level THEN "high"
       ELSE IF Abs(source_level - target_level) > 1 THEN "medium"
       ELSE "low"

(***************************************************************************)
(* ViolationDetector                                                       *)
(***************************************************************************)
\* graph.predecessors(n): the sources of the edges into n, in the order in
\* which those edges were added
GetPredecessors(n) ==
    LET into == SelectSeq(dependencies,
                          LAMBDA d : d.target = n /\ HasEdge(d.source, n))
        first == { i \in 1..Len(into) :
                      \A j \in 1..(i - 1) : into[j].source # into[i].source }
        RECURSIVE Pick(_)
        Pick(i) == IF i > Len(into) THEN <<>>
                   ELSE (IF i \in first THEN <<into[i].source>> ELSE <<>>)
                            \o Pick(i + 1)
    IN Pick(1)

\* a violation dict as a pass appends it; id and timestamp are filled in
\* from uuid4() and utcnow() when the call stamps it
Violation(type, severity, source, target, path, rule_name) ==
    [id |-> 0,
     type |-> type,
     severity |-> severity,
     source_module |-> source,
     target_module |-> target,
     dependency_path |-> path,
     rule_name |-> rule_name,
     timestamp |-> 0]

\* `rule.name if rule else 'layer_boundary'`
RuleNameFor(source_layer, target_layer) ==
    IF ApplicableRuleIndex(source_layer, target_layer) > 0
    THEN rules[ApplicableRuleIndex(source_layer, target_layer)].name
    ELSE "layer_boundary"

RECURSIVE DetectLayerViolations_NoSameLayerSkip(_, _, _)
\* the loop without `if source_layer == target_layer: continue`
DetectLayerViolations_NoSameLayerSkip(vs, es, i) ==
    IF i > Len(es) THEN vs
    ELSE LET source == es[i][1]
             target == es[i][2]
             source_layer == LayerOf(source)
             target_layer == LayerOf(target)
         IN IF source_layer = None \/ target_layer = None
            THEN DetectLayerViolations_NoSameLayerSkip(vs, es, i + 1)
            ELSE IF ~IsAllowed(source_layer, target_layer)
            THEN DetectLayerViolations_NoSameLayerSkip(
                    Append(vs, Violation("layer_violation",
                                  GetViolationSeverity(source_layer, target_layer),
                                  source, target, <<source, target>>,
                                  RuleNameFor(source_layer, target_layer))),
                    es, i + 1)
            ELSE DetectLayerViolations_NoSameLayerSkip(vs, es, i + 1)

RECURSIVE DetectLayerViolations(_, _, _)
\* _detect_layer_violations: the loop over get_edges(), from the i-th edge on
DetectLayerViolations(vs, es, i) ==
    IF i > Len(es) THEN vs
    ELSE LET source == es[i][1]
             target == es[i][2]
             source_layer == LayerOf(source)
             target_layer == LayerOf(target)
         IN IF source_layer = None \/ target_layer = None
            THEN DetectLayerViolations(vs, es, i + 1)
            ELSE IF source_layer = target_layer
            THEN DetectLayerViolations(vs, es, i + 1)
            ELSE IF ~IsAllowed(source_layer, target_layer)
            THEN DetectLayerViolations(
                    Append(vs, Violation("layer_violation",
                                  GetViolationSeverity(source_layer, target_layer),
                                  source, target, <<source, target>>,
                                  RuleNameFor(source_layer, target_layer))),
                    es, i + 1)
            ELSE DetectLayerViolations(vs, es, i + 1)

\* the severity with the test written `len(set(cycle_layers)) >= 1`
CycleSeverity_AtLeastOneLayer(cycle) ==
    IF Cardinality({ LayerOf(cycle[k]) : k \in 1..Len(cycle) }) >= 1
    THEN "high" ELSE "medium"

\* the severity of a cycle: high when it crosses layer boundaries
CycleSeverity(cycle) ==
    IF Cardinality({ LayerOf(cycle[k]) : k \in 1..Len(cycle) }) > 1
    THEN "high" ELSE "medium"

\* _detect_circular_dependencies on the cycles find_cycles returned
DetectCircularDependencies(vs, found) ==
    vs \o [i \in 1..Len(found) |->
              Violation("circular_dependency", CycleSeverity(found[i]),
                        found[i][1], found[i][Len(found[i])],
                        found[i] \o <<found[i][1]>>,
                        "acyclic_dependencies")]

\* the nodes module_layers assigns to a layer, in the order of its items
NodesOfLayer(layer) == SelectSeq(nodes, LAMBDA n : LayerOf(n) = layer)

RECURSIVE LegacyAccessFrom_SkipLegacy(_, _)
\* the loop with accessors of the legacy layer itself left out
LegacyAccessFrom_SkipLegacy(legacy_nodes, i) ==
    IF i > Len(legacy_nodes) THEN <<>>
    ELSE LET legacy_node == legacy_nodes[i]
             accessors == SelectSeq(GetPredecessors(legacy_node),
                              LAMBDA p : LayerOf(p) \notin
                                            {"gateway", "adapter", "legacy"})
         IN [k \in 1..Len(accessors) |->
                Violation("legacy_access", "critical", accessors[k], legacy_node,
                          <<accessors[k], legacy_node>>, "legacy_isolation")]
            \o LegacyAccessFrom_SkipLegacy(legacy_nodes, i + 1)

RECURSIVE LegacyAccessFrom(_, _)
\* the outer loop of _detect_legacy_access_violations, from the i-th legacy
\* node on
LegacyAccessFrom(legacy_nodes, i) ==
    IF i > Len(legacy_nodes) THEN <<>>
    ELSE LET legacy_node == legacy_nodes[i]
             accessors == SelectSeq(GetPredecessors(legacy_node),
                              LAMBDA p : LayerOf(p) \notin {"gateway", "adapter"})
         IN [k \in 1..Len(accessors) |->
                Violation("legacy_access", "critical", accessors[k], legacy_node,
                          <<accessors[k], legacy_node>>, "legacy_isolation")]
            \o LegacyAccessFrom(legacy_nodes, i + 1)

DetectLegacyAccessViolations(vs) ==
    vs \o LegacyAccessFrom(NodesOfLayer("legacy"), 1)

RECURSIVE GatewayBypassesFrom_OnlyGateway(_, _)
\* the loop accepting only the gateway layer as a target
GatewayBypassesFrom_OnlyGateway(presentation_nodes, i) ==
    IF i > Len(presentation_nodes) THEN <<>>
    ELSE LET pres_node == presentation_nodes[i]
             targets == SelectSeq(GetSuccessors(pres_node),
                            LAMBDA t : LayerOf(t) \notin {"gateway"})
         IN [k \in 1..Len(targets) |->
                Violation("bypass_gateway", "high", pres_node, targets[k],
                          <<pres_node, targets[k]>>, "gateway_enforcement")]
            \o GatewayBypassesFrom_OnlyGateway(presentation_nodes, i + 1)

RECURSIVE GatewayBypassesFrom(_, _)
\* the outer loop of _detect_gateway_bypasses, from the i-th presentation
\* node on
GatewayBypassesFrom(presentation_nodes, i) ==
    IF i > Len(presentation_nodes) THEN <<>>
    ELSE LET pres_node == presentation_nodes[i]
             targets == SelectSeq(GetSuccessors(pres_node),
                            LAMBDA t : LayerOf(t) \notin {"gateway", "presentation"})
         IN [k \in 1..Len(targets) |->
                Violation("bypass_gateway", "high", pres_node, targets[k],
                          <<pres_node, targets[k]>>, "gateway_enforcement")]
            \o GatewayBypassesFrom(presentation_nodes, i + 1)

\* the pass leaving out an edge that an earlier pass already reported
DetectGatewayBypasses_Deduplicated(vs) ==
    vs \o SelectSeq(GatewayBypassesFrom(NodesOfLayer("presentation"), 1),
                    LAMBDA v : \A i \in 1..Len(vs) :
                                  vs[i].dependency_path # v.dependency_path)

DetectGatewayBypasses(vs) ==
    vs \o GatewayBypassesFrom(NodesOfLayer("presentation"), 1)

\* the call without `self.violations = []`
ResetViolations_Kept(vs) == vs

\* `self.violations = []` at the start of detect_all_violations
ResetViolations(vs) == <<>>

\* the four passes in the order detect_all_violations runs them
RunPasses(vs, found) ==
    DetectGatewayBypasses(
        DetectLegacyAccessViolations(
            DetectCircularDependencies(
                DetectLayerViolations(vs, GetEdges, 1), found)))

\* str(uuid.uuid4()) and datetime.utcnow() for the dicts appended by this
\* call: ids never drawn before, the clock reading of the call
Stamped(vs, drawn, clock) ==
    [i \in 1..Len(vs) |->
        IF vs[i].id = 0
        THEN [vs[i] EXCEPT !.id = drawn + i, !.timestamp = clock]
        ELSE vs[i]]

\* detector.detect_all_violations(); find_cycles visits the nodes in the
\* order this process's string hashing gives, so a later call on the same
\* graph enumerates the cycles exactly as the first call did (the list kept
\* in cycles)
DetectAllViolations ==
    /\ pc \in {"compiled", "detected"}
    /\ \E found \in (IF calls = 0
                      THEN { SimpleCycles(nodes, adj, order) :
                                order \in NodeOrders(nodes, adj) }
                      ELSE { cycles }) :
          /\ cycles' = found
          /\ \E appended \in { RunPasses(ResetViolations(violations), found) } :
                /\ violations' = Stamped(appended, uuid_count, calls + 1)
                /\ uuid_count' = uuid_count + Len(appended)
    /\ previous_violations' = violations
    /\ calls' = calls + 1
    /\ pc' = IF pc = "compiled" THEN "detected" ELSE "redetected"
    /\ UNCHANGED <<source_files, fileIdx, modules, dependencies, nodes,
                   node_layer, adj, inferred_layers, layer_hierarchy, votes,
                   voteIdx, allowed_dependencies, rules, unreadable, stdout,
                   request, database>>

(***************************************************************************)
(* DependencyGraph queries and export (graph/builder.py).                  *)
(***************************************************************************)
\* get_nodes_by_layer: the nodes whose attribute 'layer' is the given layer
GetNodesByLayer(layer) == SelectSeq(nodes, LAMBDA n : node_layer[n] = layer)

\* get_graph_stats: number_of_nodes and number_of_edges of the DiGraph (the
\* density, is_dag and components entries are not modelled)
GetGraphStats ==
    [total_nodes |-> Len(nodes),
     total_edges |-> Len(GetEdges)]

\* the export with the edges from a node to itself left out
ToDict_WithoutSelfLoops ==
    LET es == SelectSeq(GetEdges, LAMBDA e : e[1] # e[2])
    IN [nodes |-> [i \in 1..Len(nodes) |->
                      [id |-> nodes[i],
                       file_path |-> MetadataOf(modules, nodes[i]).file_path,
                       layer |-> node_layer[nodes[i]]]],
        edges |-> [i \in 1..Len(es) |->
                      [from |-> es[i][1],
                       to |-> es[i][2],
                       import_type |-> "import"]]]

\* to_dict: one entry per node with its attributes, one entry per edge
ToDict ==
    [nodes |-> [i \in 1..Len(nodes) |->
                   [id |-> nodes[i],
                    file_path |-> MetadataOf(modules, nodes[i]).file_path,
                    layer |-> node_layer[nodes[i]]]],
     edges |-> [i \in 1..Len(GetEdges) |->
                   [from |-> GetEdges[i][1],
                    to |-> GetEdges[i][2],
                    import_type |-> "import"]]]

(***************************************************************************)
(* POST /analyze: analyze_repository (api/endpoints.py) and the executor   *)
(* thread that runs prepare_repository (utils/git_helper.py).              *)
(***************************************************************************)
ViolationSeverity == {"low", "medium", "high", "critical"}

ViolationType ==
    {"layer_violation", "forbidden_dependency", "circular_dependency",
     "legacy_access", "bypass_gateway"}

SeverityThreshold == {"LOW", "MEDIUM", "HIGH", "CRITICAL"}

severity_order == [LOW |-> 0, MEDIUM |-> 1, HIGH |-> 2, CRITICAL |-> 3]

\* str.upper() on one character, tabulated over the alphabet
UpperTable ==
    [c \in { CharAt(Alphabet, i) : i \in 1..Len(Alphabet) } |->
        IF IndexIn(c, LowerChars) > 0
        THEN CharAt(UpperChars, IndexIn(c, LowerChars)) ELSE c]

RECURSIVE UpperFrom(_, _)
UpperFrom(s, i) ==
    IF i > Len(s) THEN "" ELSE UpperTable[CharAt(s, i)] \o UpperFrom(s, i + 1)

Upper(s) == UpperFrom(s, 1)

\* severity_order.get(v['severity'].upper(), 0), tabulated over the severities
SeverityRankTable ==
    [sev \in ViolationSeverity |->
        IF Upper(sev) \in DOMAIN severity_order
        THEN severity_order[Upper(sev)] ELSE 0]

\* the list comprehension that keeps the violations at or above the threshold
FilterBySeverity(vs, level) ==
    SelectSeq(vs, LAMBDA v : SeverityRankTable[v.severity] >= level)

\* detector.get_violations_by_severity(): counts over detector.violations
GetViolationsBySeverity ==
    [sev \in ViolationSeverity |->
        Cardinality({ i \in 1..Len(violations) : violations[i].severity = sev })]

\* detector.get_violations_by_type(): counts over detector.violations
GetViolationsByType ==
    [type \in ViolationType |->
        Cardinality({ i \in 1..Len(violations) : violations[i].type = type })]

\* cleanup_temp_directory, under the guard of the finally clause
CleanupTempDirectory ==
    IF is_temp /\ local_path # None
    THEN directories \ {local_path}
    ELSE directories

\* the handler's locals are released when it is left by an exception
ReleaseLocals ==
    /\ fileIdx' = 1
    /\ modules' = <<>>
    /\ dependencies' = <<>>
    /\ nodes' = <<>>
    /\ node_layer' = <<>>
    /\ adj' = <<>>
    /\ inferred_layers' = <<>>
    /\ layer_hierarchy' = <<>>
    /\ votes' = <<>>
    /\ voteIdx' = 0
    /\ allowed_dependencies' = <<>>
    /\ rules' = <<>>
    /\ cycles' = <<>>
    /\ violations' = <<>>
    /\ previous_violations' = <<>>
    /\ uuid_count' = 0
    /\ calls' = 0

\* `except Exception` and `finally`: a failed Analysis row is committed and
\* the directory is removed when it was cloned
HandleFailure ==
    /\ analysis_rows' = Append(analysis_rows, [status |-> "failed"])
    /\ directories' = CleanupTempDirectory
    /\ pc' = "failed"
    /\ ReleaseLocals
    /\ UNCHANGED <<source_files, unreadable, stdout, repo_path, local_path,
                   is_temp, threshold_level, violation_rows, history_rows>>

\* analyze_repository up to its first await: prepare_repository is handed
\* to the default executor
RunInExecutor ==
    /\ pc = "request"
    /\ executor = "idle"
    /\ executor' = "running"
    /\ pc' = "awaiting"
    /\ UNCHANGED <<source_files, fileIdx, modules, dependencies, nodes,
                   node_layer, adj, inferred_layers, layer_hierarchy, votes,
                   voteIdx, allowed_dependencies, rules, cycles, unreadable,
                   stdout, detection, repo_path, local_path, is_temp,
                   directories, database>>

\* prepare_repository in the executor thread: a local path is answered at
\* once, a GitHub URL gets its temporary directory and the clone starts
PrepareRepository ==
    /\ executor = "running"
    /\ IF IsGithubUrl(repo_path)
       THEN /\ directories' = directories \cup {TempDir}
            /\ executor' = "cloning"
       ELSE /\ executor' = IF repo_path \in directories
                           THEN "returned" ELSE "raised"
            /\ UNCHANGED directories
    /\ UNCHANGED <<pc, source_files, fileIdx, modules, dependencies, nodes,
                   node_layer, adj, inferred_layers, layer_hierarchy, votes,
                   voteIdx, allowed_dependencies, rules, cycles, unreadable,
                   stdout, detection, repo_path, local_path, is_temp,
                   database>>

\* clone_repository after mkdtemp: clone_from returns, or it raises and the
\* directory is removed before the exception is passed on
CloneRepository ==
    /\ executor = "cloning"
    /\ \/ /\ executor' = "returned"
          /\ UNCHANGED directories
       \/ /\ executor' = "raised"
          /\ directories' = directories \ {TempDir}
    /\ UNCHANGED <<pc, source_files, fileIdx, modules, dependencies, nodes,
                   node_layer, adj, inferred_layers, layer_hierarchy, votes,
                   voteIdx, allowed_dependencies, rules, cycles, unreadable,
                   stdout, detection, repo_path, local_path, is_temp,
                   database>>

\* the value prepare_repository returns
PrepareResult ==
    IF IsGithubUrl(repo_path) THEN <<TempDir, TRUE>> ELSE <<repo_path, FALSE>>

\* await asyncio.wait_for(..., timeout=300.0): the result, the exception of
\* prepare_repository, or TimeoutError while the thread is still running
AwaitPrepared ==
    /\ pc = "awaiting"
    /\ \/ /\ executor = "returned"
          /\ local_path' = PrepareResult[1]
          /\ is_temp' = PrepareResult[2]
          /\ pc' = "scan"
          /\ UNCHANGED <<source_files, fileIdx, modules, dependencies, nodes,
                         node_layer, adj, inferred_layers, layer_hierarchy,
                         votes, voteIdx, allowed_dependencies, rules, cycles,
                         unreadable, stdout, detection, repo_path,
                         directories, database>>
       \/ /\ executor = "raised"
          /\ HandleFailure
       \/ /\ executor \in {"running", "cloning"}
          /\ HandleFailure
    /\ UNCHANGED executor

\* an exception between the scan and the commit, e.g. raised by db.commit()
PipelineFailure ==
    /\ pc = "detected"
    /\ HandleFailure
    /\ UNCHANGED executor

\* analyze_repository after detect_all_violations: the severity filter, the
\* Analysis, Violation and ArchitectureHistory rows, the commit, and the
\* finally clause
StoreAnalysis ==
    /\ pc = "detected"
    /\ \E threshold \in SeverityThreshold :
          \E kept \in { FilterBySeverity(violations, severity_order[threshold]) } :
             \E violations_by_severity \in { GetViolationsBySeverity } :
                /\ threshold_level' = severity_order[threshold]
                /\ analysis_rows' = Append(analysis_rows,
                      [status |-> "success",
                       total_modules |-> Len(modules),
                       total_dependencies |-> Len(dependencies),
                       total_violations |-> Len(kept),
                       violations_by_severity |-> violations_by_severity])
                /\ violation_rows' = violation_rows \o kept
                /\ history_rows' = Append(history_rows,
                      [total_violations |-> Len(kept),
                       violations_by_type |-> GetViolationsByType,
                       violations_by_severity |-> violations_by_severity,
                       graph_snapshot |-> ToDict])
    /\ directories' = CleanupTempDirectory
    /\ pc' = "stored"
    /\ UNCHANGED <<source_files, fileIdx, modules, dependencies, nodes,
                   node_layer, adj, inferred_layers, layer_hierarchy, votes,
                   voteIdx, allowed_dependencies, rules, cycles, unreadable,
                   stdout, detection, repo_path, local_path, is_temp, executor>>

\* the one detect_all_violations call of the endpoint
DetectOnce == pc = "compiled" /\ DetectAllViolations

Next ==
    \/ RunInExecutor
    \/ PrepareRepository
    \/ CloneRepository
    \/ AwaitPrepared
    \/ AnalyzeFile
    \/ BuildFromAnalysis
    \/ FindCycles
    \/ AssignModulesToLayers
    \/ DetermineHierarchy
    \/ ApplyVote
    \/ InferAllowedDependencies
    \/ RulesEngineInit
    \/ DetectAllViolations
    \/ PipelineFailure
    \/ StoreAnalysis

Spec == Init /\ [][Next]_vars

SpecScan == InitScan /\ [][Next]_vars

\* one request from entry to return, without the standalone queries
HandleRequest ==
    \/ RunInExecutor
    \/ PrepareRepository
    \/ CloneRepository
    \/ AwaitPrepared
    \/ AnalyzeFile
    \/ BuildFromAnalysis
    \/ AssignModulesToLayers
    \/ DetermineHierarchy
    \/ ApplyVote
    \/ InferAllowedDependencies
    \/ RulesEngineInit
    \/ DetectOnce
    \/ PipelineFailure
    \/ StoreAnalysis

\* the event loop runs the handler to its end and the executor thread runs
\* prepare_repository to its end
SpecLive ==
    /\ InitLive
    /\ [][HandleRequest]_vars
    /\ WF_vars(HandleRequest)

(***************************************************************************)
(* Properties                                                              *)
(***************************************************************************)
\* the layer names a caller may pass: the five inferred ones and one, the
\* detector's 'adapter', that no hierarchy contains
QueryLayers == SeqRange(LAYER_ORDER) \cup {"adapter"}

HierarchyHas(layer, level) ==
    layer \in DOMAIN layer_hierarchy /\ layer_hierarchy[layer] = level

\* C1: Legacy isolation.  Once the rules are compiled, for every present
\* source layer S other than legacy, whatever the levels, is_allowed(S,
\* legacy) is false and the severity of S -> legacy is critical.
C1_LegacyIsolation ==
    (pc = "compiled" /\ "legacy" \in SeqRange(layers)) =>
        \A S \in SeqRange(layers) \ {"legacy"} :
            /\ ~IsAllowed(S, "legacy")
            /\ GetViolationSeverity(S, "legacy") = "critical"

\* C2 as stated: with gateway=1 and data=3, data -> gateway is disallowed
\* with severity exactly high, and gateway -> data is allowed.
C2_DataToGatewayHigh ==
    (pc = "compiled" /\ HierarchyHas("gateway", 1) /\ HierarchyHas("data", 3)) =>
        /\ ~IsAllowed("data", "gateway")
        /\ GetViolationSeverity("data", "gateway") = "high"
        /\ IsAllowed("gateway", "data")

\* C2 amended: with gateway=1 and data=3, data -> gateway is disallowed with
\* severity critical (the levels differ by 2), and gateway -> data is allowed.
C2_DataToGatewayCritical ==
    (pc = "compiled" /\ HierarchyHas("gateway", 1) /\ HierarchyHas("data", 3)) =>
        /\ ~IsAllowed("data", "gateway")
        /\ GetViolationSeverity("data", "gateway") = "critical"
        /\ IsAllowed("gateway", "data")

C2_Witness ==
    /\ pc = "compiled"
    /\ HierarchyHas("gateway", 1)
    /\ HierarchyHas("data", 3)
    /\ Len(rules) > 0

\* the level of a layer as the claim gives it: 999 when the hierarchy lacks it
ClaimLevel(layer) ==
    IF layer \in DOMAIN layer_hierarchy THEN layer_hierarchy[layer] ELSE 999

\* C3: for every pair of layers with levels s and t (999 for a layer missing
\* from the hierarchy) the severity is the first matching case of: critical
\* if s - t >= 2 or the target is legacy; high if t < s; medium if
\* |s - t| > 1; low otherwise.
C3_SeverityCases ==
    pc = "compiled" =>
        \A src \in QueryLayers, tgt \in QueryLayers :
            LET sl == ClaimLevel(src)
                tl == ClaimLevel(tgt)
                sev == GetViolationSeverity(src, tgt)
                isCritical == sl - tl >= 2 \/ tgt = "legacy"
                isHigh == ~isCritical /\ tl < sl
                isMedium == ~isCritical /\ ~isHigh /\ (sl - tl > 1 \/ tl - sl > 1)
            IN /\ sev \in {"low", "medium", "high", "critical"}
               /\ (sev = "critical") <=> isCritical
               /\ (sev = "high") <=> isHigh
               /\ (sev = "medium") <=> isMedium
               /\ (sev = "low") <=> (~isCritical /\ ~isHigh /\ ~isMedium)

\* a compiled rule set under which all four severities, and a layer missing
\* from the hierarchy, occur
C3_Witness ==
    /\ pc = "compiled"
    /\ \A sev \in {"low", "medium", "high", "critical"} :
          \E src \in SeqRange(layers), tgt \in SeqRange(layers) :
              src # tgt /\ GetViolationSeverity(src, tgt) = sev
    /\ \E src \in SeqRange(layers) :
          GetViolationSeverity(src, "adapter") = "medium"

DependencyPairs ==
    { <<dependencies[i].source, dependencies[i].target>> :
         i \in 1..Len(dependencies) }

\* C4: a dependency record is a graph edge if and only if its source and its
\* target are both module ids present as nodes; an unmatched record creates
\* no node; every edge's endpoints are nodes.
C4_EdgesBetweenNodes ==
    pc # "scan" =>
        /\ SeqRange(nodes) = DictKeys(modules)
        /\ DOMAIN adj = SeqRange(nodes)
        /\ \A u \in SeqRange(nodes) : SeqRange(adj[u]) \subseteq SeqRange(nodes)
        /\ \A u \in SeqRange(nodes), v \in SeqRange(nodes) :
              HasEdge(u, v) <=> <<u, v>> \in DependencyPairs
        /\ \A d \in DependencyPairs :
              (d[1] \notin DictKeys(modules) \/ d[2] \notin DictKeys(modules))
                  => ~HasEdge(d[1], d[2])

\* a built graph from records of which one is matched and one is not
C4_Witness ==
    /\ pc = "built"
    /\ \E d \in DependencyPairs : d[2] \notin DictKeys(modules)
    /\ \E d \in DependencyPairs : HasEdge(d[1], d[2])

IsRotation(c, d) ==
    /\ Len(c) = Len(d)
    /\ \E k \in 0..(Len(c) - 1) :
          \A i \in 1..Len(c) : d[i] = c[((i - 1 + k) % Len(c)) + 1]

\* a closed walk along edges of the graph that repeats no node
IsElementaryCycle(c) ==
    /\ Len(c) >= 1
    /\ IsInjective(c)
    /\ \A i \in 1..Len(c) : HasEdge(c[i], c[(i % Len(c)) + 1])

\* every elementary cycle of the graph, in every rotation: the node sequences
\* over the nodes that can reach themselves
AllElementaryCycles ==
    LET onCycle == { n \in SeqRange(nodes) : n \in ReachableFrom(adj, n) }
    IN { c \in UNION { [1..k -> onCycle] : k \in 1..Cardinality(onCycle) } :
            IsElementaryCycle(c) }

\* C5: find_cycles returns every elementary cycle of the graph, self-loops
\* included, exactly once: each returned list is an elementary cycle, each
\* elementary cycle has a rotation in the result, and no two returned lists
\* are rotations of one another.
C5_EveryCycleOnce ==
    pc = "cycles" =>
        /\ \A i \in 1..Len(cycles) : IsElementaryCycle(cycles[i])
        /\ \A c \in AllElementaryCycles :
              \E i \in 1..Len(cycles) : IsRotation(c, cycles[i])
        /\ \A i, j \in 1..Len(cycles) :
              i # j => ~IsRotation(cycles[i], cycles[j])

\* a result holding a self-loop and a longer cycle
C5_Witness ==
    /\ pc = "cycles"
    /\ \E i \in 1..Len(cycles) : Len(cycles[i]) = 1
    /\ \E i \in 1..Len(cycles) : Len(cycles[i]) >= 2

SmallestFirst(c) == \A j \in 2..Len(c) : StrLess(c[1], c[j])

SortedByFirstThenLength(cs) ==
    \A i, j \in 1..Len(cs) :
        i < j => \/ StrLess(cs[i][1], cs[j][1])
                 \/ (cs[i][1] = cs[j][1] /\ Len(cs[i]) <= Len(cs[j]))

\* the graph is exactly the three nodes a, b, c with the edges a->b, b->c, c->a
IsTriangle(a, b, c) ==
    /\ SeqRange(nodes) = {a, b, c}
    /\ Cardinality({a, b, c}) = 3
    /\ SeqRange(adj[a]) = {b}
    /\ SeqRange(adj[b]) = {c}
    /\ SeqRange(adj[c]) = {a}

\* C6 as stated: every returned cycle starts with its smallest module id,
\* the result is sorted by first id then length, and for a < b < c with
\* edges a->b, b->c, c->a the result is exactly [[a, b, c]].
C6_CanonicalCycles ==
    pc = "cycles" =>
        /\ \A i \in 1..Len(cycles) : SmallestFirst(cycles[i])
        /\ SortedByFirstThenLength(cycles)
        /\ \A a, b, c \in SeqRange(nodes) :
              (IsTriangle(a, b, c) /\ StrLess(a, b) /\ StrLess(b, c))
                  => cycles = << <<a, b, c>> >>

\* C6 amended: every returned cycle is listed along the edges from one of its
\* own nodes (not necessarily the smallest id); for edges a->b, b->c, c->a
\* the result is exactly one cycle, a rotation of [a, b, c].
C6_RotationOfCycle ==
    pc = "cycles" =>
        /\ \A i \in 1..Len(cycles) : IsElementaryCycle(cycles[i])
        /\ \A a, b, c \in SeqRange(nodes) :
              IsTriangle(a, b, c)
                  => Len(cycles) = 1 /\ IsRotation(<<a, b, c>>, cycles[1])

\* the triangle, returned from a node that is not its smallest id
C6_Witness ==
    /\ pc = "cycles"
    /\ \E a, b, c \in SeqRange(nodes) : IsTriangle(a, b, c)
    /\ Len(cycles) = 1
    /\ ~SmallestFirst(cycles[1])

\* the layer names as the claim lists them, in priority order
ClaimPriority == <<"presentation", "gateway", "service", "data", "legacy">>

\* the layers of which some fragment is a substring of the lowercased file
\* path or module id, tabulated over the metadata of the explored files
ClaimMatches ==
    [m \in DOMAIN LayerTable |->
        { l \in SeqRange(ClaimPriority) :
            \E p \in SeqRange(LAYER_PATTERNS[l]) :
                Contains(p, Lower(m.file_path)) \/ Contains(p, Lower(m.name)) }]

MatchesOf(n) ==
    LET m == MetadataOf(modules, n)
    IN ClaimMatches[[name |-> m.name, file_path |-> m.file_path]]

LayersAssigned == pc \in {"assigned", "voting", "inferred", "compiled"}

\* C7: after the assignment every graph node is mapped to exactly one layer
\* name, and a node with no fragment of any layer is mapped to service.
C7_TotalAssignment ==
    LayersAssigned =>
        /\ DOMAIN inferred_layers = SeqRange(nodes)
        /\ \A n \in SeqRange(nodes) :
              /\ inferred_layers[n] \in SeqRange(ClaimPriority)
              /\ MatchesOf(n) = {} => inferred_layers[n] = "service"

\* an assignment holding a node without any fragment and a node with one
C7_Witness ==
    /\ pc = "assigned"
    /\ \E n \in SeqRange(nodes) : MatchesOf(n) = {} /\ inferred_layers[n] = "service"
    /\ \E n \in SeqRange(nodes) : inferred_layers[n] # "service"

\* C8: a node is assigned the first layer, in the order presentation,
\* gateway, service, data, legacy, that has a fragment in its lowercased file
\* path or module id; a gateway module whose id also contains "service" is
\* assigned gateway.
C8_PriorityOrder ==
    LayersAssigned =>
        \A n \in SeqRange(nodes) :
            /\ \A k \in 1..Len(ClaimPriority) :
                  (/\ ClaimPriority[k] \in MatchesOf(n)
                   /\ \A j \in 1..(k - 1) : ClaimPriority[j] \notin MatchesOf(n))
                      => inferred_layers[n] = ClaimPriority[k]
            /\ ({"gateway", "service"} \subseteq MatchesOf(n)
                    /\ "presentation" \notin MatchesOf(n))
                  => inferred_layers[n] = "gateway"

\* an assignment of a module under a gateway directory whose id also
\* contains "service"
C8_Witness ==
    /\ pc = "assigned"
    /\ \E n \in SeqRange(nodes) :
          /\ Contains("service", n)
          /\ Contains("gateway/", MetadataOf(modules, n).file_path)
          /\ inferred_layers[n] = "gateway"

\* the layer pair of the k-th edge that get_edges lists
EdgeLayerPair(k) == <<LayerOf(GetEdges[k][1]), LayerOf(GetEdges[k][2])>>

CrossEdgeIndexes(pair) ==
    { k \in 1..Len(GetEdges) : EdgeLayerPair(k) = pair /\ pair[1] # pair[2] }

FirstIndex(S) == CHOOSE k \in S : \A j \in S : k <= j

\* votes lists each inter-layer pair once, with its number of edges, in the
\* order in which the pairs are first met along get_edges
VotesInFirstSeenOrder ==
    /\ \A k \in 1..Len(GetEdges) :
          EdgeLayerPair(k)[1] # EdgeLayerPair(k)[2]
              => \E i \in 1..Len(votes) : votes[i].pair = EdgeLayerPair(k)
    /\ \A i \in 1..Len(votes) :
          /\ CrossEdgeIndexes(votes[i].pair) # {}
          /\ votes[i].count = Cardinality(CrossEdgeIndexes(votes[i].pair))
    /\ \A i, j \in 1..Len(votes) :
          i < j => FirstIndex(CrossEdgeIndexes(votes[i].pair))
                      < FirstIndex(CrossEdgeIndexes(votes[j].pair))

\* the base levels as the claim gives them, for the layers in use
ClaimBaseLevels ==
    [l \in { inferred_layers[n] : n \in DOMAIN inferred_layers } |->
        CASE l = "presentation" -> 0
          [] l = "gateway" -> 1
          [] l = "service" -> 2
          [] l = "data" -> 3
          [] l = "legacy" -> 4
          [] OTHER -> 2]

RECURSIVE ClaimFold(_, _, _)
\* the claim's adjustment applied to the pairs of vs in their order: a pair
\* counted more than 2 times raises its target to the source's level + 1
\* unless the target is already above the source's current level
ClaimFold(h, vs, i) ==
    IF i > Len(vs) THEN h
    ELSE LET a == vs[i].pair[1]
             b == vs[i].pair[2]
         IN ClaimFold(IF vs[i].count > 2 /\ ~(h[b] > h[a])
                      THEN [h EXCEPT ![b] = h[a] + 1] ELSE h,
                      vs, i + 1)

PairLess(p, q) == StrLess(p[1], q[1]) \/ (p[1] = q[1] /\ StrLess(p[2], q[2]))

\* descending count, ties alphabetically by the pair
VoteBefore(x, y) ==
    x.count > y.count \/ (x.count = y.count /\ PairLess(x.pair, y.pair))

SortedVotes(vs) ==
    LET perm == CHOOSE f \in { g \in [1..Len(vs) -> 1..Len(vs)] : IsInjective(g) } :
                    \A i, j \in 1..Len(vs) : i < j => VoteBefore(vs[f[i]], vs[f[j]])
    IN [i \in 1..Len(vs) |-> vs[perm[i]]]

HierarchyDone == pc \in {"inferred", "compiled"}

\* C9 as stated: the hierarchy is the result of applying the pairs in
\* descending order of count, ties alphabetically, so it depends only on the
\* counts and not on the order of the edges.
C9_SortedVoteOrder ==
    HierarchyDone =>
        layer_hierarchy = ClaimFold(ClaimBaseLevels, SortedVotes(votes), 1)

\* C9 amended: the pairs are applied in the order in which they are first
\* met along the graph's edges, only pairs counted more than 2 times, each
\* raising its target to sourceLevel+1 unless the target is already above
\* the source's current level.
C9_FirstSeenVoteOrder ==
    HierarchyDone =>
        /\ VotesInFirstSeenOrder
        /\ layer_hierarchy = ClaimFold(ClaimBaseLevels, votes, 1)

\* a hierarchy from two significant pairs that the sorted order would have
\* made different
C9_Witness ==
    /\ pc = "inferred"
    /\ Cardinality({ i \in 1..Len(votes) : votes[i].count > 2 }) >= 2
    /\ layer_hierarchy # ClaimFold(ClaimBaseLevels, SortedVotes(votes), 1)

\* C10: for every present layer L, allowed[L] is exactly the set of present
\* layers M with M # L and level(M) >= level(L).
C10_AllowedFromHierarchy ==
    HierarchyDone =>
        /\ DOMAIN allowed_dependencies = DOMAIN layer_hierarchy
        /\ \A L \in DOMAIN layer_hierarchy :
              /\ IsInjective(allowed_dependencies[L])
              /\ L \notin SeqRange(allowed_dependencies[L])
              /\ SeqRange(allowed_dependencies[L]) =
                    { M \in DOMAIN layer_hierarchy :
                        M # L /\ layer_hierarchy[M] >= layer_hierarchy[L] }

\* a map with two layers on one level, each allowed to the other, and a
\* layer kept out of a deeper layer's list
C10_Witness ==
    /\ pc = "inferred"
    /\ \E L, M \in DOMAIN layer_hierarchy :
          /\ L # M
          /\ layer_hierarchy[L] = layer_hierarchy[M]
          /\ M \in SeqRange(allowed_dependencies[L])
    /\ \E L, M \in DOMAIN layer_hierarchy :
          /\ layer_hierarchy[M] < layer_hierarchy[L]
          /\ M \notin SeqRange(allowed_dependencies[L])

RulesCompiled == pc \in {"compiled", "detected", "redetected"}

\* the indexes of the compiled rules for the ordered pair (s, t)
RulesFor(s, t) ==
    { i \in 1..Len(rules) : rules[i].layer_source = s /\ rules[i].layer_target = t }

\* the indexes of the rules that name no source layer
StructuralRules == { i \in 1..Len(rules) : rules[i].layer_source = None }

\* C11: over the n present layers, compilation emits exactly one pairwise
\* rule for each of the n*(n-1) ordered pairs of distinct layers, allowed
\* exactly when the target is in the source's allowed-dependency list, no
\* rule with source equal to target, and exactly one additional structural
\* rule (forbidden, target legacy) when and only when legacy is present.
C11_OneRulePerPair ==
    RulesCompiled =>
        LET present == DOMAIN layer_hierarchy
            n == Cardinality(present)
        IN /\ \A s \in present, t \in present :
                 s # t => /\ Cardinality(RulesFor(s, t)) = 1
                          /\ \A i \in RulesFor(s, t) :
                                rules[i].allowed
                                    <=> t \in SeqRange(allowed_dependencies[s])
           /\ \A i \in 1..Len(rules) :
                 /\ rules[i].layer_source # rules[i].layer_target
                 /\ i \notin StructuralRules
                       => {rules[i].layer_source, rules[i].layer_target}
                              \subseteq present
           /\ Len(rules) - Cardinality(StructuralRules) = n * (n - 1)
           /\ Cardinality(StructuralRules)
                 = (IF "legacy" \in present THEN 1 ELSE 0)
           /\ \A i \in StructuralRules :
                 rules[i].layer_target = "legacy" /\ ~rules[i].allowed

\* rules compiled for at least three layers, legacy among them, with an
\* allowed and a forbidden pair
C11_Witness ==
    /\ pc = "compiled"
    /\ Cardinality(DOMAIN layer_hierarchy) >= 3
    /\ StructuralRules # {}
    /\ \E i \in 1..Len(rules) : i \notin StructuralRules /\ rules[i].allowed
    /\ \E i \in 1..Len(rules) : i \notin StructuralRules /\ ~rules[i].allowed

\* C12: is_allowed(s, t) is the allowed flag of the compiled rule for (s, t)
\* when there is one, and otherwise whether t is in allowed[s] (false when s
\* has no entry); it answers for layer names absent from the configuration.
C12_RuleThenMembership ==
    pc = "compiled" =>
        \A s \in QueryLayers, t \in QueryLayers :
            /\ IsAllowed(s, t) \in BOOLEAN
            /\ \A i \in RulesFor(s, t) : IsAllowed(s, t) = rules[i].allowed
            /\ RulesFor(s, t) = {}
                  => (IsAllowed(s, t)
                        <=> (s \in DOMAIN allowed_dependencies
                                /\ t \in SeqRange(allowed_dependencies[s])))

\* compiled rules under which a query is answered by an allowing rule, one by
\* a forbidding rule, one by the membership test for a present layer, and
\* one for a layer that has no entry
C12_Witness ==
    /\ pc = "compiled"
    /\ \E s \in SeqRange(layers), t \in SeqRange(layers) :
          RulesFor(s, t) # {} /\ IsAllowed(s, t)
    /\ \E s \in SeqRange(layers), t \in SeqRange(layers) :
          RulesFor(s, t) # {} /\ ~IsAllowed(s, t)
    /\ \E s \in SeqRange(layers) : RulesFor(s, s) = {} /\ ~IsAllowed(s, s)
    /\ "adapter" \notin DOMAIN allowed_dependencies
    /\ \E t \in SeqRange(layers) :
          RulesFor("adapter", t) = {} /\ ~IsAllowed("adapter", t)

Detected == pc \in {"detected", "redetected"}

\* the indexes of the emitted violations of one type
OfType(type) == { i \in 1..Len(violations) : violations[i].type = type }

\* the indexes of the violations of one type reported for the pair (s, t)
Reported(type, s, t) ==
    { i \in OfType(type) :
        violations[i].source_module = s /\ violations[i].target_module = t }

\* the layer assigned to a node, None when it has none
AssignedTo(n) == IF n \in DOMAIN inferred_layers THEN inferred_layers[n] ELSE None

IsEdge(s, t) == s \in DOMAIN adj /\ t \in SeqRange(adj[s])

\* C13: a layer_violation is emitted for a graph edge (s, t) if and only if
\* both endpoints have a layer, the layers differ and is_allowed of the two
\* layers is false; exactly one per such edge, with the severity of the layer
\* pair, source s, target t and path exactly [s, t]; none for a same-layer
\* edge.
C13_LayerViolations ==
    Detected =>
        /\ \A s \in SeqRange(nodes), t \in SeqRange(nodes) :
              LET broken == /\ IsEdge(s, t)
                            /\ AssignedTo(s) # None
                            /\ AssignedTo(t) # None
                            /\ AssignedTo(s) # AssignedTo(t)
                            /\ ~IsAllowed(AssignedTo(s), AssignedTo(t))
              IN Cardinality(Reported("layer_violation", s, t))
                    = (IF broken THEN 1 ELSE 0)
        /\ \A i \in OfType("layer_violation") :
              LET v == violations[i]
              IN /\ IsEdge(v.source_module, v.target_module)
                 /\ AssignedTo(v.source_module) # AssignedTo(v.target_module)
                 /\ v.dependency_path = <<v.source_module, v.target_module>>
                 /\ v.severity = GetViolationSeverity(AssignedTo(v.source_module),
                                                      AssignedTo(v.target_module))

\* a detection that reports one edge as a layer violation and passes over a
\* same-layer edge and an allowed edge between two layers
C13_Witness ==
    /\ pc = "detected"
    /\ OfType("layer_violation") # {}
    /\ \E s \in SeqRange(nodes), t \in SeqRange(nodes) :
          IsEdge(s, t) /\ AssignedTo(s) = AssignedTo(t)
    /\ \E s \in SeqRange(nodes), t \in SeqRange(nodes) :
          /\ IsEdge(s, t)
          /\ AssignedTo(s) # AssignedTo(t)
          /\ IsAllowed(AssignedTo(s), AssignedTo(t))

\* the circular_dependency violations, in the order of their emission
CircularReported == SelectSeq(violations, LAMBDA v : v.type = "circular_dependency")

C15_LegacyAccess ==
    Detected =>
        /\ \A p \in SeqRange(nodes), n \in SeqRange(nodes) :
              LET direct == /\ AssignedTo(n) = "legacy"
                            /\ IsEdge(p, n)
                            /\ AssignedTo(p) \notin {"gateway", "adapter"}
              IN Cardinality(Reported("legacy_access", p, n))
                    = (IF direct THEN 1 ELSE 0)
        /\ \A i \in OfType("legacy_access") :
              LET v == violations[i]
              IN /\ v.severity = "critical"
                 /\ v.dependency_path = <<v.source_module, v.target_module>>
                 /\ AssignedTo(v.source_module) # "gateway"

\* a detection over a legacy node with a predecessor in the legacy layer,
\* reported, and a predecessor in the gateway layer, not reported
C15_Witness ==
    /\ pc = "detected"
    /\ \E i \in OfType("legacy_access") :
          AssignedTo(violations[i].source_module) = "legacy"
    /\ \E p \in SeqRange(nodes), n \in SeqRange(nodes) :
          /\ IsEdge(p, n)
          /\ AssignedTo(n) = "legacy"
          /\ AssignedTo(p) = "gateway"
          /\ Reported("legacy_access", p, n) = {}

\* C16: a bypass_gateway violation, severity high, path [p, t], is emitted
\* if and only if p is assigned presentation, t is a successor of p and t's
\* layer is neither gateway nor presentation; none for an edge from
\* presentation to gateway or to presentation.
C16_GatewayBypass ==
    Detected =>
        /\ \A p \in SeqRange(nodes), t \in SeqRange(nodes) :
              LET bypass == /\ AssignedTo(p) = "presentation"
                            /\ IsEdge(p, t)
                            /\ AssignedTo(t) \notin {"gateway", "presentation"}
              IN Cardinality(Reported("bypass_gateway", p, t))
                    = (IF bypass THEN 1 ELSE 0)
        /\ \A i \in OfType("bypass_gateway") :
              LET v == violations[i]
              IN /\ v.severity = "high"
                 /\ v.dependency_path = <<v.source_module, v.target_module>>
                 /\ AssignedTo(v.target_module) \notin {"gateway", "presentation"}

\* a detection over a presentation node with a reported successor, a
\* successor in the gateway layer and a successor in the presentation layer
C16_Witness ==
    /\ pc = "detected"
    /\ OfType("bypass_gateway") # {}
    /\ \E p \in SeqRange(nodes), t \in SeqRange(nodes) :
          /\ IsEdge(p, t)
          /\ AssignedTo(p) = "presentation"
          /\ AssignedTo(t) = "gateway"
    /\ \E p \in SeqRange(nodes), t \in SeqRange(nodes) :
          /\ IsEdge(p, t)
          /\ AssignedTo(p) = "presentation"
          /\ AssignedTo(t) = "presentation"

\* a violation without its id and timestamp
Content(v) ==
    [type |-> v.type,
     severity |-> v.severity,
     source_module |-> v.source_module,
     target_module |-> v.target_module,
     dependency_path |-> v.dependency_path,
     rule_name |-> v.rule_name]

\* the multiset of the contents of a list of violations
ContentBag(vs) ==
    LET contents == [i \in 1..Len(vs) |-> Content(vs[i])]
    IN [c \in SeqRange(contents) |->
           Cardinality({ i \in 1..Len(contents) : contents[i] = c })]

\* one of the four passes, run on the list vs
Pass(k, vs) ==
    CASE k = 1 -> DetectLayerViolations(vs, GetEdges, 1)
      [] k = 2 -> DetectCircularDependencies(vs, cycles)
      [] k = 3 -> DetectLegacyAccessViolations(vs)
      [] k = 4 -> DetectGatewayBypasses(vs)

\* the four passes run from the empty list in the order given by o
PassesInOrder(o) == Pass(o[4], Pass(o[3], Pass(o[2], Pass(o[1], <<>>))))

PassOrders == { o \in [1..4 -> 1..4] : IsInjective(o) }

ViolationTypes ==
    {"layer_violation", "circular_dependency", "legacy_access", "bypass_gateway"}

\* C17: the result of detect_all_violations is the multiset union of the
\* outputs of the four passes, each computed from the graph, the layer
\* assignment and the rules alone; it is the same multiset for every order of
\* running the passes; every violation has one of the four types; an edge
\* from presentation to legacy yields one legacy_access and one
\* bypass_gateway.
C17_UnionOfPasses ==
    pc = "detected" =>
        /\ \E got \in { ContentBag(violations) } :
              /\ got = ContentBag(Pass(1, <<>>) \o Pass(2, <<>>)
                                    \o Pass(3, <<>>) \o Pass(4, <<>>))
              /\ \A o \in PassOrders : ContentBag(PassesInOrder(o)) = got
        /\ Len(violations) = Len(Pass(1, <<>>)) + Len(Pass(2, <<>>))
                                + Len(Pass(3, <<>>)) + Len(Pass(4, <<>>))
        /\ \A i \in 1..Len(violations) : violations[i].type \in ViolationTypes
        /\ \A p \in SeqRange(nodes), n \in SeqRange(nodes) :
              (/\ IsEdge(p, n)
               /\ AssignedTo(p) = "presentation"
               /\ AssignedTo(n) = "legacy")
                  => /\ Cardinality(Reported("legacy_access", p, n)) = 1
                     /\ Cardinality(Reported("bypass_gateway", p, n)) = 1

\* a detection over an edge from presentation to legacy, with violations of
\* at least three types
C17_Witness ==
    /\ pc = "detected"
    /\ \E p \in SeqRange(nodes), n \in SeqRange(nodes) :
          /\ IsEdge(p, n)
          /\ AssignedTo(p) = "presentation"
          /\ AssignedTo(n) = "legacy"
    /\ Cardinality({ violations[i].type : i \in 1..Len(violations) }) >= 3

\* C18: a second detect_all_violations in a row returns the same multiset of
\* violations as the first when id and timestamp are ignored, without the
\* first call's violations in addition; the call leaves the graph, the rules
\* and the layer assignment as they were.
C18_Idempotent ==
    /\ [](pc = "redetected" =>
            /\ ContentBag(violations) = ContentBag(previous_violations)
            /\ Len(violations) = Len(previous_violations)
            /\ calls = 2)
    /\ [][DetectAllViolations =>
            UNCHANGED <<nodes, node_layer, adj, modules, inferred_layers,
                        layer_hierarchy, allowed_dependencies, rules>>]_vars

\* a second call that returned at least two violations, under new ids
C18_Witness ==
    /\ pc = "redetected"
    /\ Len(violations) >= 2
    /\ Len(previous_violations) >= 2
    /\ \A i \in 1..Len(violations), j \in 1..Len(previous_violations) :
          violations[i].id # previous_violations[j].id

\* the scanned files whose analysis raised: the unreadable ones that a
\* reading strategy was applied to
FailedFiles ==
    { f \in SeqRange(source_files) :
        f \in unreadable /\ StrategyTable[f] # "generic" }

AnalysedFiles == SeqRange(source_files) \ FailedFiles

OutDegree(n) == IF n \in DOMAIN adj THEN Len(adj[n]) ELSE 0

\* C19: every scanned file analysed without error yields a module node, a
\* file handled by the generic strategy and a file with an empty import list
\* included, and such a node has no outgoing dependency edges.
C19_NodeWithoutEdges ==
    pc = "built" =>
        /\ \A f \in AnalysedFiles : GetModuleName(f) \in SeqRange(nodes)
        /\ \A f \in AnalysedFiles :
              StrategyTable[f] = "generic" => OutDegree(GetModuleName(f)) = 0
        /\ \A i \in 1..Len(modules) :
              modules[i].imports = <<>> => OutDegree(modules[i].name) = 0

\* what C19 says of the files themselves: each file analysed without error
\* has its module id among the nodes
C19_NodePerFile ==
    pc = "built" =>
        \A f \in AnalysedFiles : GetModuleName(f) \in SeqRange(nodes)

\* the file paths of the warnings returned with the result, if analyze()
\* returned a third component
ReturnedWarningPaths ==
    IF Len(AnalyzeReturn) >= 3
    THEN { AnalyzeReturn[3][i].file_path : i \in 1..Len(AnalyzeReturn[3]) }
    ELSE {}

\* the per-file part of the error policy: the scan is completed, a failed
\* file has no module record and is the source of no dependency, every other
\* file is processed
FailuresContained ==
    /\ fileIdx = Len(source_files) + 1
    /\ \A i \in 1..Len(modules) : modules[i].file_path \in AnalysedFiles
    /\ \A f \in AnalysedFiles : GetModuleName(f) \in DictKeys(modules)
    /\ \A i \in 1..Len(dependencies) :
          dependencies[i].source \in { GetModuleName(f) : f \in AnalysedFiles }

\* C20 as stated: a failing file does not make analyze() raise, contributes
\* no module record and no dependency, the other files are processed, and a
\* warning with the file's path is in a warning list returned alongside the
\* modules and dependencies.
C20_WarningsReturned ==
    pc = "built" =>
        /\ FailuresContained
        /\ Len(AnalyzeReturn) >= 3
        /\ ReturnedWarningPaths = FailedFiles

\* C20 amended: a failing file does not make analyze() raise, contributes no
\* module record and no dependency, the other files are processed, and one
\* line carrying the file's path is printed; analyze() returns the modules
\* and the dependencies only.
C20_WarningsPrinted ==
    pc = "built" =>
        /\ FailuresContained
        /\ AnalyzeReturn = <<modules, dependencies>>
        /\ Len(stdout) = Cardinality(FailedFiles)
        /\ { stdout[i].file_path : i \in 1..Len(stdout) } = FailedFiles

\* a scan of three files of which the second failed
C20_Witness ==
    /\ pc = "built"
    /\ Len(source_files) = 3
    /\ source_files[2] \in FailedFiles
    /\ Len(modules) = 2
    /\ Len(stdout) = 1
    /\ Len(dependencies) > 0

\* C21: module ids are unique per scanned file: the id is the repository-
\* relative path with the extension stripped and the separators replaced by
\* '.', no two scanned files share one module record and no record is
\* overwritten by a later file, so after the scan there are as many module
\* records as files analysed without error.
C21_OneRecordPerFile ==
    pc = "built" =>
        /\ \A i \in 1..Len(modules) :
              modules[i].name = GetModuleName(modules[i].file_path)
        /\ \A f \in AnalysedFiles :
              \E i \in 1..Len(modules) : modules[i].file_path = f
        /\ Len(modules) = Cardinality(AnalysedFiles)

\* the indexes of the dependency records whose source and target are nodes
MatchedRecords ==
    { i \in 1..Len(dependencies) :
        dependencies[i].source \in SeqRange(nodes)
            /\ dependencies[i].target \in SeqRange(nodes) }

\* the (source, target) pairs of the matched dependency records
MatchedPairs ==
    { <<dependencies[i].source, dependencies[i].target>> : i \in MatchedRecords }

\* C22 as stated: the graph preserves edge multiplicity: each dependency
\* record between two existing nodes is kept as its own parallel edge and is
\* counted in the statistics' edge count and in the snapshot's edge list.
C22_ParallelEdgesKept ==
    pc = "built" =>
        /\ GetGraphStats.total_edges = Cardinality(MatchedRecords)
        /\ Len(ToDict.edges) = Cardinality(MatchedRecords)

\* C22 amended: dependency records with the same existing source and target
\* collapse into one edge: the statistics' edge count and the snapshot's edge
\* list hold one entry per distinct (source, target) pair, the same simple
\* adjacency that cycle-finding walks.
C22_DuplicatesCollapse ==
    pc = "built" =>
        /\ GetGraphStats.total_edges = Cardinality(MatchedPairs)
        /\ Len(ToDict.edges) = Cardinality(MatchedPairs)
        /\ { <<ToDict.edges[i].from, ToDict.edges[i].to>> :
                i \in 1..Len(ToDict.edges) } = MatchedPairs
        /\ \A u \in SeqRange(nodes), v \in SeqRange(nodes) :
              HasEdge(u, v) <=> <<u, v>> \in MatchedPairs

\* a graph built from two records with the same existing source and target
C22_Witness ==
    /\ pc = "built"
    /\ \E i \in MatchedRecords, j \in MatchedRecords :
          /\ i < j
          /\ dependencies[i].source = dependencies[j].source
          /\ dependencies[i].target = dependencies[j].target
    /\ GetGraphStats.total_edges >= 2

\* the snapshot committed by the last request
StoredSnapshot == history_rows[Len(history_rows)].graph_snapshot

\* C23: the numbers of node entries and of edge entries of the snapshot are
\* the node count and the edge count of the statistics, the from and to of
\* every snapshot edge are among the snapshot's node ids, and taking the
\* snapshot leaves the graph as it was.
C23_SnapshotCounts ==
    /\ [](pc = "stored" =>
            /\ Len(StoredSnapshot.nodes) = GetGraphStats.total_nodes
            /\ Len(StoredSnapshot.edges) = GetGraphStats.total_edges
            /\ \A i \in 1..Len(StoredSnapshot.edges) :
                  \E j \in 1..Len(StoredSnapshot.nodes), k \in 1..Len(StoredSnapshot.nodes) :
                     /\ StoredSnapshot.nodes[j].id = StoredSnapshot.edges[i].from
                     /\ StoredSnapshot.nodes[k].id = StoredSnapshot.edges[i].to)
    /\ [][StoreAnalysis => UNCHANGED <<nodes, node_layer, adj, modules>>]_vars

\* a stored snapshot of a graph with an edge between two nodes and an edge
\* from a node to itself
C23_Witness ==
    /\ pc = "stored"
    /\ \E i \in 1..Len(StoredSnapshot.edges) :
          StoredSnapshot.edges[i].from # StoredSnapshot.edges[i].to
    /\ \E i \in 1..Len(StoredSnapshot.edges) :
          StoredSnapshot.edges[i].from = StoredSnapshot.edges[i].to

\* the steps of inference, rule compilation and detection
PipelineStep ==
    \/ AssignModulesToLayers
    \/ DetermineHierarchy
    \/ ApplyVote
    \/ InferAllowedDependencies
    \/ RulesEngineInit
    \/ DetectOnce

BeforeDetection == pc \in {"built", "assigned", "voting", "inferred", "compiled"}

\* inference, compilation and detection all have a next step, and on the
\* empty graph the layer list, the hierarchy, the allowed-dependency map and
\* the rule list are empty
TotalOnDegenerate ==
    /\ (BeforeDetection /\ (Len(nodes) <= 1 \/ GetEdges = <<>>)) =>
           ENABLED PipelineStep
    /\ (pc \in {"compiled", "detected"} /\ nodes = <<>>) =>
           /\ layers = <<>>
           /\ DOMAIN layer_hierarchy = {}
           /\ DOMAIN allowed_dependencies = {}
           /\ rules = <<>>

C25_LevelsOnlyRaised ==
    /\ []((pc = "voting" /\ voteIdx = 1) => layer_hierarchy = ClaimBaseLevels)
    /\ [][ApplyVote =>
             /\ DOMAIN layer_hierarchy' = DOMAIN layer_hierarchy
             /\ \A l \in DOMAIN layer_hierarchy :
                   layer_hierarchy'[l] >= layer_hierarchy[l]]_vars
    /\ [](HierarchyDone =>
             /\ DOMAIN layer_hierarchy =
                   { inferred_layers[n] : n \in DOMAIN inferred_layers }
             /\ \A l \in DOMAIN layer_hierarchy :
                   layer_hierarchy[l] >= ClaimBaseLevels[l]
             /\ (\A i \in 1..Len(votes) : votes[i].count <= 2) =>
                   layer_hierarchy = ClaimBaseLevels)

\* a finished hierarchy in which an adjustment raised a layer above its base
\* level while another significant pair left its target alone
C25_Witness ==
    /\ pc = "inferred"
    /\ \E l \in DOMAIN layer_hierarchy : layer_hierarchy[l] > ClaimBaseLevels[l]
    /\ \E i \in 1..Len(votes) :
          /\ votes[i].count > 2
          /\ layer_hierarchy[votes[i].pair[2]] = ClaimBaseLevels[votes[i].pair[2]]

\* the extensions the claim lists as sharing another extension's patterns
VariantExtensions ==
    {".jsx", ".ts", ".tsx", ".mjs", ".cjs", ".h", ".hpp", ".hxx", ".cc",
     ".cxx", ".exs"}

\* C26: a file with one of the extensions .jsx, .ts, .tsx, .mjs, .cjs, .h,
\* .hpp, .hxx, .cc, .cxx, .exs is analysed with the import patterns of its
\* language, so that its resolved imports become dependency edges, and is not
\* treated as a generic module without edges.
C26_VariantsUsePatterns ==
    pc = "built" =>
        \A f \in AnalysedFiles :
            SuffixOf(f) \in VariantExtensions => StrategyTable[f] = "patterns"

AfterInference ==
    pc \in {"assigned", "voting", "inferred", "compiled", "detected", "stored"}

\* C28: after inference the node attribute 'layer', the module record's
\* layer and the layer assignment agree and are set for every node; the
\* nodes get_nodes_by_layer gives for a layer are the nodes assigned to it,
\* every node of the snapshot carries its assigned layer, and the keys of the
\* hierarchy are the layers assigned to at least one node.
C28_LayerCopiesAgree ==
    AfterInference =>
        /\ DOMAIN inferred_layers = SeqRange(nodes)
        /\ \A n \in SeqRange(nodes) :
              /\ inferred_layers[n] # None
              /\ node_layer[n] = inferred_layers[n]
              /\ MetadataOf(modules, n).layer = inferred_layers[n]
        /\ \A L \in SeqRange(LAYER_ORDER) :
              SeqRange(GetNodesByLayer(L))
                  = { n \in SeqRange(nodes) : inferred_layers[n] = L }
        /\ pc = "stored" =>
              \A i \in 1..Len(StoredSnapshot.nodes) :
                  StoredSnapshot.nodes[i].layer
                      = inferred_layers[StoredSnapshot.nodes[i].id]
        /\ pc \notin {"assigned"} =>
              DOMAIN layer_hierarchy
                  = { inferred_layers[n] : n \in SeqRange(nodes) }

\* a stored analysis of nodes of two layers, one of them the default layer
C28_Witness ==
    /\ pc = "stored"
    /\ \E n \in SeqRange(nodes), m \in SeqRange(nodes) :
          /\ inferred_layers[n] = "service"
          /\ inferred_layers[m] \notin {"service", None}

\* the Analysis row committed by the last request
StoredAnalysis == analysis_rows[Len(analysis_rows)]

\* the number of stored Violation rows of one severity
StoredOfSeverity(sev) ==
    Cardinality({ i \in 1..Len(violation_rows) : violation_rows[i].severity = sev })

\* the level of a severity in the order LOW < MEDIUM < HIGH < CRITICAL
ClaimSeverityLevel(sev) ==
    CASE sev = "low" -> 0
      [] sev = "medium" -> 1
      [] sev = "high" -> 2
      [] sev = "critical" -> 3

\* C29: in the result of a successful request, whatever the severity
\* threshold, total_violations is the sum of the counts of
\* violations_by_severity, the stored violation records are exactly the
\* counted ones, and every violation stored or counted has a severity at or
\* above the threshold.
C29_CountsMatchStored ==
    pc = "stored" =>
        LET counts == StoredAnalysis.violations_by_severity
        IN /\ StoredAnalysis.total_violations
                 = counts["low"] + counts["medium"] + counts["high"]
                      + counts["critical"]
           /\ \A sev \in DOMAIN counts : counts[sev] = StoredOfSeverity(sev)
           /\ \A i \in 1..Len(violation_rows) :
                 ClaimSeverityLevel(violation_rows[i].severity) >= threshold_level
           /\ \A sev \in DOMAIN counts :
                 counts[sev] > 0 => ClaimSeverityLevel(sev) >= threshold_level

\* C30: every temporary directory created by cloning for a request is
\* eventually removed, whether the analysis succeeds, a pipeline stage fails,
\* the clone fails or the wait for the clone times out while the clone keeps
\* running; a local repository path is never deleted.
C30_TempDirectoriesRemoved ==
    /\ (TempDir \in directories) ~> (TempDir \notin directories)
    /\ [](LocalRepo \in directories)
====
